---- MODULE Spec2Model ----
(***************************************************************************)
(* Model of the validator state machine of pd (pd/src/validator_set.rs)    *)
(* together with the rate arithmetic it calls (stake/src/rate.rs).         *)
(*                                                                         *)
(* A ValidatorSet is a state machine driven through its public methods;    *)
(* each method is one action.  The database Reader is an external          *)
(* collaborator: what it returns is an input of the action that reads it.  *)
(***************************************************************************)
EXTENDS Integers, Sequences, FiniteSets, TLC

(***************************************************************************)
(* Bounds of the model.                                                    *)
(***************************************************************************)
NumIds == 2              \* identity keys are 1..NumIds (IdentityKey is totally ordered)
NumKeys == 2             \* consensus keys are 1..NumKeys
MaxSeqNum == 2           \* sequence numbers of definitions are 1..MaxSeqNum
SigLen == 3              \* auth_sig.to_bytes() has SigLen bytes (64 in the program)
MaxByte == 1             \* each byte is 0..MaxByte
MaxPending == 3          \* definitions added per block
MaxLimit == 2            \* active_validator_limit is 1..MaxLimit
MaxEpoch == 2            \* epoch indices are 0..MaxEpoch
MaxUnbonding == 1        \* chain_params.unbonding_epochs is 1..MaxUnbonding
MaxCalls == 3             \* calls made on one ValidatorSet
MaxRateCalls == 1         \* calls of a pure function in one behaviour
GroupOrder == 5           \* order of the group that stands for decaf377
DEPTH == 2                \* merkle::DEPTH, the depth of the note commitment tree
MaxList == 2             \* cap on the per-block lists new/updated/slashed_validators
DeltaUnit == 100         \* a transaction delegates or undelegates DeltaUnit tokens
MaxDelta == 100          \* |delegation_changes[k]| <= MaxDelta
SupplyUnit == 100        \* committed delegation-token supplies are multiples of it
StakingSupply == 1000    \* committed supply of the staking token

(***************************************************************************)
(* Program constants.                                                      *)
(***************************************************************************)
FP_SCALE == 100000000            \* 1_0000_0000, the fixed-point unit of every rate
BPS_SCALE == 10000               \* 1_0000: one basis point in units of 1e-8; 100% in bps
BASE_REWARD_RATE == 30000        \* 3_0000
EPOCH_DURATION == 8640           \* ChainParams::default().epoch_duration

IdentityKeys == 1..NumIds
ConsensusKeys == 1..NumKeys
AuthSigs == [1..SigLen -> 0..MaxByte]

\* ValidatorState: a tag and, for Unbonding, the unbonding epoch (0 otherwise).
Inactive == [name |-> "Inactive", unbonding_epoch |-> 0]
Active == [name |-> "Active", unbonding_epoch |-> 0]
Slashed == [name |-> "Slashed", unbonding_epoch |-> 0]
Unbonding(e) == [name |-> "Unbonding", unbonding_epoch |-> e]

\* Validator: the configuration carried by a definition.
Validators ==
    [identity_key : IdentityKeys, consensus_key : ConsensusKeys,
     sequence_number : 1..MaxSeqNum]

RECURSIVE SigNumber(_)
\* The number the bytes of a signature spell, the last byte lowest.
SigNumber(sig) ==
    IF sig = <<>> THEN 0
    ELSE sig[Len(sig)] + (MaxByte + 1) * SigNumber(SubSeq(sig, 1, Len(sig) - 1))

\* The verification a definition has passed before add_validator_definition:
\* auth_sig authenticates the configuration.  A signature is valid for one
\* consensus key and sequence number only, spelled by its last bytes; the
\* bytes before them are free, so that a configuration has several
\* signatures and two different configurations of one identity never have
\* the same.
Authenticates(auth_sig, validator) ==
    LET n == SigNumber(auth_sig) % (NumKeys * MaxSeqNum) IN
    /\ validator.consensus_key = (n % NumKeys) + 1
    /\ validator.sequence_number = (n \div NumKeys) + 1

\* VerifiedValidatorDefinition { validator, auth_sig }.
VerifiedValidatorDefinitions ==
    {d \in [validator : Validators, auth_sig : AuthSigs] :
        Authenticates(d.auth_sig, d.validator)}

None == [none |-> TRUE]

Epoch(i) == [index |-> i, duration |-> EPOCH_DURATION]

\* Epoch::next
EpochNext(e) == [index |-> e.index + 1, duration |-> e.duration]

(***************************************************************************)
(* Helpers over sequences and ordered maps.                                *)
(***************************************************************************)
Min(S) == CHOOSE x \in S : \A y \in S : x <= y

RECURSIVE SortedKeys(_)
\* The keys of a BTreeMap in iteration (ascending) order.
SortedKeys(S) ==
    IF S = {} THEN <<>> ELSE <<Min(S)>> \o SortedKeys(S \ {Min(S)})

Range(s) == {s[i] : i \in 1..Len(s)}

RECURSIVE SumLens(_, _)
SumLens(f, S) ==
    IF S = {} THEN 0
    ELSE LET k == CHOOSE x \in S : TRUE IN Len(f[k]) + SumLens(f, S \ {k})

\* BTreeMap::insert / entry().or_insert()
MapPut(m, k, v) == [x \in DOMAIN m \cup {k} |-> IF x = k THEN v ELSE m[x]]

(***************************************************************************)
(* Rate arithmetic (stake/src/rate.rs).  Rates are integers in units of    *)
(* 1e-8.  a * b / c is computed without forming the product, digit by     *)
(* digit of b, so that the model's integers stay small; the value is the   *)
(* truncated quotient of the exact product.                                *)
(***************************************************************************)
\* The radix in which MulDivRem reads b: the largest of 16, 8, 2 for which
\* no intermediate value leaves the model's integers.
Radix(c) == IF c <= 60000000 THEN 16 ELSE IF c <= 130000000 THEN 8 ELSE 2

RECURSIVE MulDivRem(_, _, _)
\* <<q, r>> with a * b = q * c + r and 0 <= r < c, for a, b >= 0 and c > 0.
MulDivRem(a, b, c) ==
    IF b = 0 THEN <<0, 0>>
    ELSE LET h == MulDivRem(a, b \div Radix(c), c)
             d == b % Radix(c)
             r == Radix(c) * h[2] + d * (a % c)
         IN  <<Radix(c) * h[1] + d * (a \div c) + (r \div c), r % c>>

\* floor(a * b / c)
MulDiv(a, b, c) == MulDivRem(a, b, c)[1]

RECURSIVE CommissionBps(_)
\* funding_streams.iter().fold(0, |total, stream| total + stream.rate_bps)
CommissionBps(funding_streams) ==
    IF funding_streams = <<>> THEN 0
    ELSE Head(funding_streams).rate_bps + CommissionBps(Tail(funding_streams))

\* RateData::next, were the commission refused only above 200%.
RateDataNextPanicsAboveDouble(funding_streams, validator_state) ==
    /\ validator_state.name = "Active"
    /\ CommissionBps(funding_streams) > 2 * BPS_SCALE

\* RateData::next panics when the commission of an Active validator is above 100%.
RateDataNextPanics(funding_streams, validator_state) ==
    validator_state.name = "Active" /\ CommissionBps(funding_streams) > BPS_SCALE

\* RateData::next, were an Unbonding validator to earn as an Active one.
RateDataNextUnbondingEarns(self, base_rate_data, funding_streams, validator_state) ==
    IF validator_state.name \in {"Slashed", "Inactive"}
    THEN [self EXCEPT !.epoch_index = @ + 1]
    ELSE [self EXCEPT !.epoch_index = @ + 1,
                      !.validator_reward_rate =
                          MulDiv(FP_SCALE - CommissionBps(funding_streams) * BPS_SCALE,
                                 base_rate_data.base_reward_rate, FP_SCALE),
                      !.validator_exchange_rate =
                          MulDiv(self.validator_exchange_rate,
                                 self.validator_reward_rate + FP_SCALE, FP_SCALE)]

\* RateData::next, were the exchange rate to grow by the reward rate of the
\* next epoch instead of the one of the current epoch.
RateDataNextNewReward(self, base_rate_data, funding_streams, validator_state) ==
    LET reward == MulDiv(FP_SCALE - CommissionBps(funding_streams) * BPS_SCALE,
                         base_rate_data.base_reward_rate, FP_SCALE)
    IN  IF validator_state.name \in {"Slashed", "Inactive", "Unbonding"}
        THEN [self EXCEPT !.epoch_index = @ + 1]
        ELSE [self EXCEPT !.epoch_index = @ + 1,
                          !.validator_reward_rate = reward,
                          !.validator_exchange_rate =
                              MulDiv(self.validator_exchange_rate,
                                     reward + FP_SCALE, FP_SCALE)]

\* RateData::next
RateDataNext(self, base_rate_data, funding_streams, validator_state) ==
    LET constant_rate ==
            [identity_key |-> self.identity_key,
             epoch_index |-> self.epoch_index + 1,
             validator_reward_rate |-> self.validator_reward_rate,
             validator_exchange_rate |-> self.validator_exchange_rate]
        commission_rate_bps == CommissionBps(funding_streams)
    IN  IF validator_state.name \in {"Slashed", "Inactive", "Unbonding"}
        THEN constant_rate
        ELSE [identity_key |-> self.identity_key,
              epoch_index |-> self.epoch_index + 1,
              validator_reward_rate |->
                  MulDiv(FP_SCALE - commission_rate_bps * BPS_SCALE,
                         base_rate_data.base_reward_rate, FP_SCALE),
              validator_exchange_rate |->
                  MulDiv(self.validator_exchange_rate,
                         self.validator_reward_rate + FP_SCALE, FP_SCALE)]

\* a.saturating_sub(b)
SaturatingSub(a, b) == IF a >= b THEN a - b ELSE 0

\* RateData::slash, were the penalty in basis points of 1e4.
RateDataSlashBps(self, slashing_penalty) ==
    [self EXCEPT !.validator_reward_rate =
        SaturatingSub(self.validator_reward_rate,
                      MulDiv(self.validator_reward_rate, slashing_penalty, BPS_SCALE))]

\* RateData::slash
RateDataSlash(self, slashing_penalty) ==
    [self EXCEPT !.validator_reward_rate =
        SaturatingSub(self.validator_reward_rate,
                      MulDiv(self.validator_reward_rate, slashing_penalty, FP_SCALE))]

\* RateData::unbonded_amount
UnbondedAmount(self, delegation_amount) ==
    MulDiv(delegation_amount, self.validator_exchange_rate, FP_SCALE)

\* RateData::delegation_amount
DelegationAmount(self, unbonded_amount) ==
    MulDiv(unbonded_amount, FP_SCALE, self.validator_exchange_rate)

\* RateData::voting_power, were the supply not scaled by the rates.
VotingPowerUnscaled(self, total_delegation_tokens, base_rate_data) ==
    total_delegation_tokens

\* RateData::voting_power
VotingPower(self, total_delegation_tokens, base_rate_data) ==
    MulDiv(total_delegation_tokens, self.validator_exchange_rate,
           base_rate_data.base_exchange_rate)

\* BaseRateData::next
BaseRateDataNext(self, base_reward_rate) ==
    [epoch_index |-> self.epoch_index + 1,
     base_reward_rate |-> base_reward_rate,
     base_exchange_rate |->
         MulDiv(self.base_exchange_rate, base_reward_rate + FP_SCALE, FP_SCALE)]

(***************************************************************************)
(* Natural numbers of any size, as sequences of limbs in 0..BigBase-1,     *)
(* lowest limb first and no highest limb 0 (zero is the empty sequence).   *)
(* They carry the values of u64 and u128 that the integers of the model    *)
(* cannot.                                                                 *)
(***************************************************************************)
BigBase == 10 ^ 4
RECURSIVE BigOf(_)
\* The number n of the model as a limb sequence.
BigOf(n) == IF n = 0 THEN <<>> ELSE <<n % BigBase>> \o BigOf(n \div BigBase)

RECURSIVE BigNorm(_)
\* a without its highest limbs 0.
BigNorm(a) ==
    IF a = <<>> THEN <<>>
    ELSE IF a[Len(a)] = 0 THEN BigNorm(SubSeq(a, 1, Len(a) - 1)) ELSE a

\* a * BigBase^k
BigShift(a, k) == IF a = <<>> THEN <<>> ELSE [i \in 1..k |-> 0] \o a

RECURSIVE BigAddCarry(_, _, _)
BigAddCarry(a, b, carry) ==
    IF a = <<>> /\ b = <<>> THEN (IF carry = 0 THEN <<>> ELSE <<carry>>)
    ELSE LET x == IF a = <<>> THEN 0 ELSE Head(a)
             y == IF b = <<>> THEN 0 ELSE Head(b)
             t == x + y + carry
         IN  <<t % BigBase>> \o BigAddCarry(IF a = <<>> THEN <<>> ELSE Tail(a),
                                            IF b = <<>> THEN <<>> ELSE Tail(b),
                                            t \div BigBase)

BigAdd(a, b) == BigAddCarry(a, b, 0)

RECURSIVE BigLessFrom(_, _, _)
\* a < b for a and b of the same length, deciding from limb i downwards.
BigLessFrom(a, b, i) ==
    IF i = 0 THEN FALSE
    ELSE IF a[i] # b[i] THEN a[i] < b[i] ELSE BigLessFrom(a, b, i - 1)

BigLess(a, b) ==
    IF Len(a) # Len(b) THEN Len(a) < Len(b) ELSE BigLessFrom(a, b, Len(a))

RECURSIVE BigSubBorrow(_, _, _)
BigSubBorrow(a, b, borrow) ==
    IF a = <<>> THEN <<>>
    ELSE LET y == (IF b = <<>> THEN 0 ELSE Head(b)) + borrow
             t == IF Head(a) >= y THEN Head(a) - y ELSE Head(a) + BigBase - y
         IN  <<t>> \o BigSubBorrow(Tail(a), IF b = <<>> THEN <<>> ELSE Tail(b),
                                   IF Head(a) >= y THEN 0 ELSE 1)

\* a - b, for a >= b
BigSub(a, b) == BigNorm(BigSubBorrow(a, b, 0))

RECURSIVE BigScaleCarry(_, _, _)
BigScaleCarry(a, d, carry) ==
    IF a = <<>> THEN (IF carry = 0 THEN <<>> ELSE <<carry>>)
    ELSE LET t == Head(a) * d + carry
         IN  <<t % BigBase>> \o BigScaleCarry(Tail(a), d, t \div BigBase)

\* a * d for one limb d
BigScale(a, d) == IF d = 0 THEN <<>> ELSE BigScaleCarry(a, d, 0)

RECURSIVE BigMul(_, _)
\* a * b, limb by limb of b.
BigMul(a, b) ==
    IF a = <<>> \/ b = <<>> THEN <<>>
    ELSE BigAdd(BigScale(a, Head(b)), BigShift(BigMul(a, Tail(b)), 1))

RECURSIVE BigDivLimb(_, _, _, _)
\* The largest d in lo..hi with d * b <= r, given lo * b <= r, by bisection.
BigDivLimb(r, b, lo, hi) ==
    IF lo = hi THEN lo
    ELSE LET mid == (lo + hi + 1) \div 2
         IN  IF BigLess(r, BigScale(b, mid))
             THEN BigDivLimb(r, b, lo, mid - 1)
             ELSE BigDivLimb(r, b, mid, hi)

RECURSIVE BigDivFrom(_, _, _, _, _)
\* Long division of a by b from limb i of a downwards: q and r are the
\* quotient and the remainder of the limbs of a above i.
BigDivFrom(a, i, b, q, r) ==
    IF i = 0 THEN <<q, r>>
    ELSE LET high == BigNorm(<<a[i]>> \o r)
             d == BigDivLimb(high, b, 0, BigBase - 1)
         IN  IF d = 0 /\ q = <<>>
             THEN BigDivFrom(a, i - 1, b, <<>>, high)
             ELSE BigDivFrom(a, i - 1, b, <<d>> \o q, BigSub(high, BigScale(b, d)))

\* <<floor(a / b), a mod b>> for b > 0.
BigDivMod(a, b) == BigDivFrom(a, Len(a), b, <<>>, <<>>)

BigDiv(a, b) == BigDivMod(a, b)[1]
BigMod(a, b) == BigDivMod(a, b)[2]

(***************************************************************************)
(* The arithmetic of rate.rs at its width.  Values are limb sequences; a   *)
(* computation yields [panic, value].  A u64 operation whose result does   *)
(* not fit in 64 bits panics in a build with overflow checks (the default  *)
(* of debug builds) and wraps modulo 2^64 in a build without (the default  *)
(* of release builds): overflow_checks says which build runs.  The u128    *)
(* products of two u64 values always fit in 128 bits.                      *)
(***************************************************************************)
\* 2^64
U64Modulus == <<1616, 955, 737, 6744, 1844>>

\* u64::MAX
U64Max == BigSub(U64Modulus, BigOf(1))

FitsU64(a) == BigLess(a, U64Modulus)

Returned(value) == [panic |-> FALSE, value |-> value]

Panicked == [panic |-> TRUE, value |-> <<>>]

\* The u64 that holds the unbounded result x of a u64 addition or
\* multiplication.
U64Overflowing(x, overflow_checks) ==
    IF FitsU64(x) THEN Returned(x)
    ELSE IF overflow_checks THEN Panicked
    ELSE Returned(BigMod(x, U64Modulus))

\* u64::try_from(x).unwrap() for a u128 x
U64TryFrom(x) == IF FitsU64(x) THEN Returned(x) ELSE Panicked

\* The rate data RateData::next computes for an Active validator whose
\* funding streams sum to commission_rate_bps <= 10000: every operation is on
\* u64, the epoch index of the constant rate coming first.
U64RateDataNext(self, base_rate_data, commission_rate_bps, overflow_checks) ==
    LET epoch_index == U64Overflowing(BigAdd(self.epoch_index, BigOf(1)),
                                      overflow_checks)
        reward_product ==
            U64Overflowing(BigMul(BigOf(FP_SCALE - commission_rate_bps * BPS_SCALE),
                                  base_rate_data.base_reward_rate),
                           overflow_checks)
        growth == U64Overflowing(BigAdd(self.validator_reward_rate, BigOf(FP_SCALE)),
                                 overflow_checks)
        exchange_product ==
            U64Overflowing(BigMul(self.validator_exchange_rate, growth.value),
                           overflow_checks)
    IN  IF epoch_index.panic \/ reward_product.panic \/ growth.panic
              \/ exchange_product.panic
        THEN Panicked
        ELSE Returned([epoch_index |-> epoch_index.value,
                       validator_reward_rate |->
                           BigDiv(reward_product.value, BigOf(FP_SCALE)),
                       validator_exchange_rate |->
                           BigDiv(exchange_product.value, BigOf(FP_SCALE))])

\* The base rate data BaseRateData::next computes: every operation is on
\* u64.
U64BaseRateDataNext(self, base_reward_rate, overflow_checks) ==
    LET growth == U64Overflowing(BigAdd(base_reward_rate, BigOf(FP_SCALE)),
                                 overflow_checks)
        product == U64Overflowing(BigMul(self.base_exchange_rate, growth.value),
                                  overflow_checks)
        epoch_index == U64Overflowing(BigAdd(self.epoch_index, BigOf(1)),
                                      overflow_checks)
    IN  IF growth.panic \/ product.panic \/ epoch_index.panic THEN Panicked
        ELSE Returned([base_exchange_rate |->
                           BigDiv(product.value, BigOf(FP_SCALE)),
                       base_reward_rate |-> base_reward_rate,
                       epoch_index |-> epoch_index.value])

\* The reward rate RateData::slash leaves: the product is on u64, the
\* subtraction saturates.
U64RateDataSlash(self, slashing_penalty, overflow_checks) ==
    LET product == U64Overflowing(BigMul(self.validator_reward_rate, slashing_penalty),
                                  overflow_checks)
        part == BigDiv(product.value, BigOf(FP_SCALE))
    IN  IF product.panic THEN Panicked
        ELSE IF BigLess(self.validator_reward_rate, part) THEN Returned(<<>>)
        ELSE Returned(BigSub(self.validator_reward_rate, part))

\* RateData::delegation_amount, were the quotient rounded up.
U128DelegationAmountRoundedUp(self, unbonded_amount) ==
    IF self.validator_exchange_rate = <<>> THEN Panicked
    ELSE LET qr == BigDivMod(BigMul(unbonded_amount, BigOf(FP_SCALE)),
                             self.validator_exchange_rate)
         IN  U64TryFrom(IF qr[2] = <<>> THEN qr[1] ELSE BigAdd(qr[1], BigOf(1)))

\* RateData::delegation_amount: u128 intermediates, a division that panics
\* on a divisor 0, and a conversion that panics when the quotient is above
\* u64::MAX.
U128DelegationAmount(self, unbonded_amount) ==
    IF self.validator_exchange_rate = <<>> THEN Panicked
    ELSE U64TryFrom(BigDiv(BigMul(unbonded_amount, BigOf(FP_SCALE)),
                           self.validator_exchange_rate))

\* RateData::unbonded_amount
U128UnbondedAmount(self, delegation_amount) ==
    U64TryFrom(BigDiv(BigMul(delegation_amount, self.validator_exchange_rate),
                      BigOf(FP_SCALE)))

\* RateData::voting_power
U128VotingPower(self, total_delegation_tokens, base_rate_data) ==
    IF base_rate_data.base_exchange_rate = <<>> THEN Panicked
    ELSE U64TryFrom(BigDiv(BigMul(total_delegation_tokens,
                                  self.validator_exchange_rate),
                           base_rate_data.base_exchange_rate))

(***************************************************************************)
(* Resolution of conflicting validator definitions (end_block).            *)
(***************************************************************************)
RECURSIVE InsertBySeqDesc(_, _)
\* d placed after every element whose sequence number is >= its own
\* (sort_by is stable).
InsertBySeqDesc(sorted, d) ==
    IF sorted = <<>> THEN <<d>>
    ELSE IF Head(sorted).validator.sequence_number >= d.validator.sequence_number
         THEN <<Head(sorted)>> \o InsertBySeqDesc(Tail(sorted), d)
         ELSE <<d>> \o sorted

RECURSIVE SortBySeqDesc(_)
\* defs.sort_by(|a, b| b.validator.sequence_number.cmp(&a.validator.sequence_number))
SortBySeqDesc(defs) ==
    IF defs = <<>> THEN <<>>
    ELSE InsertBySeqDesc(SortBySeqDesc(SubSeq(defs, 1, Len(defs) - 1)), defs[Len(defs)])

RECURSIVE BytesLess(_, _)
\* a_sig.cmp(&b_sig) == Less on byte arrays: lexicographic order.
BytesLess(a, b) ==
    IF a = <<>> \/ b = <<>> THEN a = <<>> /\ b # <<>>
    ELSE IF Head(a) # Head(b) THEN Head(a) < Head(b)
         ELSE BytesLess(Tail(a), Tail(b))

RECURSIVE InsertBySig(_, _)
InsertBySig(sorted, d) ==
    IF sorted = <<>> THEN <<d>>
    ELSE IF BytesLess(d.auth_sig, Head(sorted).auth_sig)
         THEN <<d>> \o sorted
         ELSE <<Head(sorted)>> \o InsertBySig(Tail(sorted), d)

RECURSIVE SortBySig(_)
\* highest_seq_bucket.1.sort_by(|a, b| a.auth_sig.to_bytes().cmp(&b.auth_sig.to_bytes()))
SortBySig(defs) ==
    IF defs = <<>> THEN <<>>
    ELSE InsertBySig(SortBySig(SubSeq(defs, 1, Len(defs) - 1)), defs[Len(defs)])

\* One definition pushed into new_validator_definitions_by_seq: a new bucket
\* when the sequence number is unseen, else appended to the bucket that has it.
PushToBucket(buckets, def) ==
    LET seq == def.validator.sequence_number IN
    IF ~ \E i \in 1..Len(buckets) : buckets[i].seq = seq
    THEN Append(buckets, [seq |-> seq, defs |-> <<def>>])
    ELSE LET i == Min({j \in 1..Len(buckets) : buckets[j].seq = seq})
         IN  [buckets EXCEPT ![i].defs = Append(@, def)]

RECURSIVE BucketsBySeq(_)
BucketsBySeq(defs) ==
    IF defs = <<>> THEN <<>>
    ELSE PushToBucket(BucketsBySeq(SubSeq(defs, 1, Len(defs) - 1)), defs[Len(defs)])

\* A faulty resolution: the signature decides alone, the sequence number
\* is not looked at.
ResolveBySigOnly(defs) == SortBySig(defs)[1]

\* A faulty resolution: the first arrived of the highest sequence number,
\* without the sort by signature.
ResolveFirstArrived(defs) == BucketsBySeq(SortBySeqDesc(defs))[1].defs[1]

\* The definition end_block picks among the definitions received for one
\* identity key (in arrival order).
ResolveDefinition(defs) ==
    LET sorted == SortBySeqDesc(defs) IN
    IF Len(sorted) = 1 THEN sorted[1]
    ELSE LET highest_seq_bucket == BucketsBySeq(sorted)[1]
         IN  SortBySig(highest_seq_bucket.defs)[1]

(***************************************************************************)
(* State of a ValidatorSet.                                                *)
(***************************************************************************)
VARIABLES
    validator_set,          \* BTreeMap<IdentityKey, ValidatorInfo>
    validator_definitions,  \* BTreeMap<IdentityKey, Vec<VerifiedValidatorDefinition>>
    new_validators,         \* Vec<ValidatorInfo>
    updated_validators,     \* Vec<ValidatorInfo>
    slashed_validators,     \* Vec<IdentityKey>
    delegation_changes,     \* BTreeMap<IdentityKey, i64>
    epoch,                  \* Option<Epoch>, always Some after new()
    next_base_rate,         \* Option<BaseRateData>
    next_rates,             \* Option<Vec<RateData>>
    tm_validator_updates,   \* Vec<ValidatorUpdate>
    reward_notes,           \* Vec<(u64, Address)>
    supply_updates,         \* BTreeMap<asset::Id, (Denom, u64)>
    chain_params,           \* what reader.chain_params_rx() holds
    last,                   \* the last call made on the ValidatorSet and its outcome
    calls                   \* the number of calls made so far

vars ==
    <<validator_set, validator_definitions, new_validators, updated_validators,
      slashed_validators, delegation_changes, epoch, next_base_rate, next_rates,
      tm_validator_updates, reward_notes, supply_updates, chain_params, last,
      calls>>

EmptyMap == [x \in {} |-> 0]

\* A validator as the genesis store holds it: its consensus key is its own,
\* its rates are the unit rates.
GenesisValidatorInfo(ik, state) ==
    [validator |-> [identity_key |-> ik, consensus_key |-> ((ik - 1) % NumKeys) + 1,
                    sequence_number |-> 1],
     status |-> [identity_key |-> ik, voting_power |-> 0, state |-> state],
     rate_data |-> [identity_key |-> ik, epoch_index |-> 0,
                    validator_reward_rate |-> 0,
                    validator_exchange_rate |-> FP_SCALE]]

NumActive(vset) == Cardinality({k \in DOMAIN vset : vset[k].status.state = Active})

\* ValidatorSet::new: the validators the reader holds, epoch 0, everything else empty.
Init ==
    /\ chain_params \in [active_validator_limit : 1..MaxLimit,
                         unbonding_epochs : 1..MaxUnbonding]
    /\ \E S \in SUBSET IdentityKeys :
         \E st \in [S -> {Inactive, Active}] :
            /\ validator_set = [k \in S |-> GenesisValidatorInfo(k, st[k])]
            /\ NumActive(validator_set) <= chain_params.active_validator_limit
    /\ validator_definitions = EmptyMap
    /\ new_validators = <<>>
    /\ updated_validators = <<>>
    /\ slashed_validators = <<>>
    /\ delegation_changes = EmptyMap
    /\ epoch = Epoch(0)
    /\ next_base_rate = None
    /\ next_rates = None
    /\ tm_validator_updates = <<>>
    /\ reward_notes = <<>>
    /\ supply_updates = EmptyMap
    /\ last = [op |-> "new", result |-> "ok"]
    /\ calls = 0

\* A panic ends the process: no call follows it.
Running == last.result # "panic"

(***************************************************************************)
(* Block-scoped operations.                                                *)
(***************************************************************************)
PendingDefinitions == SumLens(validator_definitions, DOMAIN validator_definitions)

\* add_validator_definition: the definition is pushed to the list of its
\* identity key, whatever the list holds.
AddValidatorDefinition(validator_definition) ==
    LET identity_key == validator_definition.validator.identity_key
        have == IF identity_key \in DOMAIN validator_definitions
                THEN validator_definitions[identity_key] ELSE <<>>
    IN  /\ Running
        /\ calls' = calls + 1
        /\ validator_definitions' =
              MapPut(validator_definitions, identity_key,
                     Append(have, validator_definition))
        /\ last' = [op |-> "add_validator_definition", result |-> "ok"]
        /\ UNCHANGED <<validator_set, new_validators, updated_validators,
                       slashed_validators, delegation_changes, epoch, next_base_rate,
                       next_rates, tm_validator_updates, reward_notes, supply_updates,
                       chain_params>>

\* A faulty update_delegations: a later change replaces the tally.
UpdateDelegationsMapOverwrite(dc, changes) ==
    [k \in DOMAIN dc \cup DOMAIN changes |->
        IF k \in DOMAIN changes THEN changes[k] ELSE dc[k]]

\* update_delegations
UpdateDelegationsMap(dc, changes) ==
    [k \in DOMAIN dc \cup DOMAIN changes |->
        (IF k \in DOMAIN dc THEN dc[k] ELSE 0)
        + (IF k \in DOMAIN changes THEN changes[k] ELSE 0)]

UpdateDelegations(changes) ==
    /\ Running
    /\ calls' = calls + 1
    /\ delegation_changes' = UpdateDelegationsMap(delegation_changes, changes)
    /\ last' = [op |-> "update_delegations", result |-> "ok", changes |-> changes]
    /\ UNCHANGED <<validator_set, validator_definitions, new_validators,
                   updated_validators, slashed_validators, epoch, next_base_rate,
                   next_rates, tm_validator_updates, reward_notes, supply_updates,
                   chain_params>>

\* A faulty make_validator: the exchange rate starts at the fixed-point unit.
MakeValidatorUnitRate(v, ep) ==
    [validator |-> v.validator,
     status |-> [identity_key |-> v.validator.identity_key,
                 voting_power |-> 0,
                 state |-> Inactive],
     rate_data |-> [identity_key |-> v.validator.identity_key,
                    epoch_index |-> ep.index,
                    validator_reward_rate |-> 0,
                    validator_exchange_rate |-> FP_SCALE]]

\* A faulty make_validator: the status carries the first identity key.
MakeValidatorFirstKey(v, ep) ==
    [validator |-> v.validator,
     status |-> [identity_key |-> 1,
                 voting_power |-> 0,
                 state |-> Inactive],
     rate_data |-> [identity_key |-> v.validator.identity_key,
                    epoch_index |-> ep.index,
                    validator_reward_rate |-> 0,
                    validator_exchange_rate |-> 1]]

\* The closure make_validator of end_block.
MakeValidator(v, ep) ==
    [validator |-> v.validator,
     status |-> [identity_key |-> v.validator.identity_key,
                 voting_power |-> 0,
                 state |-> Inactive],
     rate_data |-> [identity_key |-> v.validator.identity_key,
                    epoch_index |-> ep.index,
                    validator_reward_rate |-> 0,
                    validator_exchange_rate |-> 1]]

\* self.validators().any(|v| v.identity_key == *ik)
IsExistingValidator(vset, ik) ==
    \E k \in DOMAIN vset : vset[k].validator.identity_key = ik

\* A faulty update: the definition also resets the state of the validator.
ResetValidatorInfo(validator_info, def) ==
    [validator_info EXCEPT !.validator = def.validator,
                           !.status.state = Inactive]

\* The update of an existing validator: the configuration is replaced, the
\* status and the rate data are kept.
UpdateValidatorInfo(validator_info, def) ==
    [validator_info EXCEPT !.validator = def.validator]

\* add_validator
AddValidator(vset, validator) ==
    MapPut(vset, validator.validator.identity_key, validator)

RECURSIVE ApplyResolved(_, _, _, _)
\* The loop of end_block over resolved_validator_definitions, in key order.
\* acc = [vset, new_validators, updated_validators].
ApplyResolved(acc, resolved, keys, ep) ==
    IF keys = <<>> THEN acc
    ELSE LET ik == Head(keys)
             def == resolved[ik]
             next ==
                IF IsExistingValidator(acc.vset, ik)
                THEN LET validator_info == UpdateValidatorInfo(acc.vset[ik], def)
                     IN  [vset |-> [acc.vset EXCEPT ![ik] = validator_info],
                          new_validators |-> acc.new_validators,
                          updated_validators |->
                              Append(acc.updated_validators, validator_info)]
                ELSE LET new_validator == MakeValidator(def, ep)
                     IN  [vset |-> AddValidator(acc.vset, new_validator),
                          new_validators |-> Append(acc.new_validators, new_validator),
                          updated_validators |-> acc.updated_validators]
         IN  ApplyResolved(next, resolved, Tail(keys), ep)

\* A faulty report: the voting power is reported whatever the state.
TmValidatorUpdateAnyState(v) ==
    [pub_key |-> v.validator.consensus_key, power |-> v.status.voting_power]

\* The ValidatorUpdate end_block reports for one validator.
TmValidatorUpdate(v) ==
    [pub_key |-> v.validator.consensus_key,
     power |-> IF v.status.state = Active THEN v.status.voting_power ELSE 0]

TmValidatorUpdates(vset) ==
    LET keys == SortedKeys(DOMAIN vset)
    IN  [i \in 1..Len(keys) |-> TmValidatorUpdate(vset[keys[i]])]

\* The whole of end_block on the pending definitions defs, the validators
\* vset and the two per-block lists: the fields after the call.
EndBlockOn(defs, vset, new, updated, ep) ==
    LET sorted_definitions ==
            [ik \in DOMAIN defs |-> SortBySeqDesc(defs[ik])]
        resolved_validator_definitions ==
            [ik \in DOMAIN defs |-> ResolveDefinition(defs[ik])]
        acc == ApplyResolved([vset |-> vset,
                              new_validators |-> new,
                              updated_validators |-> updated],
                             resolved_validator_definitions,
                             SortedKeys(DOMAIN resolved_validator_definitions), ep)
    IN  [validator_definitions |-> sorted_definitions,
         resolved |-> resolved_validator_definitions,
         validator_set |-> acc.vset,
         new_validators |-> acc.new_validators,
         updated_validators |-> acc.updated_validators,
         tm_validator_updates |-> TmValidatorUpdates(acc.vset)]

\* end_block.  (power.try_into() fails only above i64::MAX, beyond the
\* powers of this model.)
EndBlock(ep) ==
    LET out == EndBlockOn(validator_definitions, validator_set, new_validators,
                          updated_validators, ep)
    IN  /\ Running
        /\ calls' = calls + 1
        /\ Len(out.new_validators) <= MaxList
        /\ Len(out.updated_validators) <= MaxList
        /\ epoch' = ep
        /\ validator_definitions' = out.validator_definitions
        /\ validator_set' = out.validator_set
        /\ new_validators' = out.new_validators
        /\ updated_validators' = out.updated_validators
        /\ tm_validator_updates' = out.tm_validator_updates
        /\ last' = [op |-> "end_block", result |-> "ok", epoch |-> ep,
                    resolved |-> out.resolved,
                    existing |-> {ik \in DOMAIN out.resolved :
                                    IsExistingValidator(validator_set, ik)}]
        /\ UNCHANGED <<slashed_validators, delegation_changes, next_base_rate,
                       next_rates, reward_notes, supply_updates, chain_params>>

\* A faulty test: every commit is taken for the first of a new epoch.
AlwaysAdvanced(new_epoch, current) == TRUE

\* new_epoch.index != self.epoch.as_ref().unwrap().index
EpochAdvanced(new_epoch, current) == new_epoch.index # current.index

\* commit_block
CommitBlock(new_epoch) ==
    LET advanced == EpochAdvanced(new_epoch, epoch) IN
    /\ Running
    /\ calls' = calls + 1
    /\ epoch' = IF advanced THEN new_epoch ELSE epoch
    /\ next_base_rate' = IF advanced THEN None ELSE next_base_rate
    /\ next_rates' = IF advanced THEN None ELSE next_rates
    /\ reward_notes' = IF advanced THEN <<>> ELSE reward_notes
    /\ supply_updates' = IF advanced THEN EmptyMap ELSE supply_updates
    /\ new_validators' = <<>>
    /\ slashed_validators' = <<>>
    /\ validator_definitions' = EmptyMap
    /\ updated_validators' = <<>>
    /\ tm_validator_updates' = <<>>
    /\ delegation_changes' = EmptyMap
    /\ last' = [op |-> "commit_block", result |-> "ok", new_epoch |-> new_epoch,
                advanced |-> advanced]
    /\ UNCHANGED <<validator_set, chain_params>>

\* update_supply_for_denom: amount is added to the update recorded for the
\* asset, which starts at 0.
UpdateSupplyForDenomMap(updates, id, amount) ==
    MapPut(updates, id, (IF id \in DOMAIN updates THEN updates[id] ELSE 0) + amount)

UpdateSupplyForDenom(id, amount) ==
    /\ Running
    /\ calls' = calls + 1
    /\ supply_updates' = UpdateSupplyForDenomMap(supply_updates, id, amount)
    /\ last' = [op |-> "update_supply_for_denom", result |-> "ok", id |-> id,
                amount |-> amount]
    /\ UNCHANGED <<validator_set, validator_definitions, new_validators,
                   updated_validators, slashed_validators, delegation_changes,
                   epoch, next_base_rate, next_rates, tm_validator_updates,
                   reward_notes, chain_params>>

\* add_supply_update: the update recorded for the asset is replaced.
AddSupplyUpdate(id, token_supply) ==
    /\ Running
    /\ calls' = calls + 1
    /\ supply_updates' = MapPut(supply_updates, id, token_supply)
    /\ last' = [op |-> "add_supply_update", result |-> "ok", id |-> id,
                token_supply |-> token_supply]
    /\ UNCHANGED <<validator_set, validator_definitions, new_validators,
                   updated_validators, slashed_validators, delegation_changes,
                   epoch, next_base_rate, next_rates, tm_validator_updates,
                   reward_notes, chain_params>>

\* add_validator called from outside end_block: the ValidatorInfo is
\* inserted under its identity key, replacing the one that is there.
AddValidatorCall(validator) ==
    /\ Running
    /\ calls' = calls + 1
    /\ validator_set' = AddValidator(validator_set, validator)
    /\ last' = [op |-> "add_validator", result |-> "ok", validator |-> validator]
    /\ UNCHANGED <<validator_definitions, new_validators, updated_validators,
                   slashed_validators, delegation_changes, epoch, next_base_rate,
                   next_rates, tm_validator_updates, reward_notes, supply_updates,
                   chain_params>>

(***************************************************************************)
(* Validator state transitions.  Each returns [ok, vset, slashed]: whether *)
(* the call returned Ok, and validator_set and slashed_validators after it.*)
(***************************************************************************)
\* get_validator_by_consensus_key: the first validator, in key order, that
\* carries the consensus key; 0 when there is none.
GetValidatorByConsensusKey(vset, ck) ==
    LET found == {k \in DOMAIN vset : vset[k].validator.consensus_key = ck}
    IN  IF found = {} THEN 0 ELSE vset[Min(found)].validator.identity_key

Outcome(ok, vset, slashed) == [ok |-> ok, vset |-> vset, slashed |-> slashed]

\* A faulty activate_validator: it activates from any state.
ActivateFromAnyState(vset, slashed, ck) ==
    LET ik == GetValidatorByConsensusKey(vset, ck) IN
    IF ik = 0 \/ ik \notin DOMAIN vset THEN Outcome(FALSE, vset, slashed)
    ELSE Outcome(TRUE, [vset EXCEPT ![ik].status.state = Active], slashed)

\* A faulty unbond_validator: it also unbonds an Inactive validator.
UnbondFromInactive(vset, slashed, ck, unbonding_epoch) ==
    LET ik == GetValidatorByConsensusKey(vset, ck) IN
    IF ik = 0 \/ ik \notin DOMAIN vset THEN Outcome(FALSE, vset, slashed)
    ELSE IF vset[ik].status.state.name \in {"Active", "Inactive"}
         THEN Outcome(TRUE,
                      [vset EXCEPT ![ik].status.voting_power = 0,
                                   ![ik].status.state = Unbonding(unbonding_epoch)],
                      slashed)
         ELSE Outcome(FALSE, vset, slashed)

\* deactivate_validator
DeactivateValidator(vset, slashed, ck) ==
    LET ik == GetValidatorByConsensusKey(vset, ck) IN
    IF ik = 0 \/ ik \notin DOMAIN vset THEN Outcome(FALSE, vset, slashed)
    ELSE IF vset[ik].status.state.name = "Unbonding"
         THEN Outcome(TRUE, [vset EXCEPT ![ik].status.state = Inactive], slashed)
         ELSE Outcome(FALSE, vset, slashed)

\* activate_validator
ActivateValidator(vset, slashed, ck) ==
    LET ik == GetValidatorByConsensusKey(vset, ck) IN
    IF ik = 0 \/ ik \notin DOMAIN vset THEN Outcome(FALSE, vset, slashed)
    ELSE IF vset[ik].status.state.name \in {"Inactive", "Unbonding"}
         THEN Outcome(TRUE, [vset EXCEPT ![ik].status.state = Active], slashed)
         ELSE Outcome(FALSE, vset, slashed)

\* slash_validator: the identity key is pushed to slashed_validators before
\* the current state is looked at.
SlashValidator(vset, slashed, ck, slashing_penalty) ==
    LET ik == GetValidatorByConsensusKey(vset, ck) IN
    IF ik = 0 THEN Outcome(FALSE, vset, slashed)
    ELSE IF ik \notin DOMAIN vset THEN Outcome(FALSE, vset, Append(slashed, ik))
    ELSE IF vset[ik].status.state.name \in {"Active", "Unbonding"}
         THEN Outcome(TRUE,
                      [vset EXCEPT ![ik].status.state = Slashed,
                                   ![ik].rate_data =
                                        RateDataSlash(@, slashing_penalty)],
                      Append(slashed, ik))
         ELSE Outcome(FALSE, vset, Append(slashed, ik))

\* unbond_validator
UnbondValidator(vset, slashed, ck, unbonding_epoch) ==
    LET ik == GetValidatorByConsensusKey(vset, ck) IN
    IF ik = 0 \/ ik \notin DOMAIN vset THEN Outcome(FALSE, vset, slashed)
    ELSE IF vset[ik].status.state.name = "Active"
         THEN Outcome(TRUE,
                      [vset EXCEPT ![ik].status.voting_power = 0,
                                   ![ik].status.state = Unbonding(unbonding_epoch)],
                      slashed)
         ELSE Outcome(FALSE, vset, slashed)

(***************************************************************************)
(* process_epoch_transitions                                               *)
(***************************************************************************)
RECURSIVE InsertByPower(_, _)
InsertByPower(sorted, v) ==
    IF sorted = <<>> THEN <<v>>
    ELSE IF v.status.voting_power < Head(sorted).status.voting_power
         THEN <<v>> \o sorted
         ELSE <<Head(sorted)>> \o InsertByPower(Tail(sorted), v)

RECURSIVE SortByPower(_)
\* validators_info.sort_by(|a, b| a.status.voting_power.cmp(&b.status.voting_power))
SortByPower(infos) ==
    IF infos = <<>> THEN <<>>
    ELSE InsertByPower(SortByPower(SubSeq(infos, 1, Len(infos) - 1)), infos[Len(infos)])

\* The clone of the values of validator_set, in key order, sorted by power.
ValidatorsInfoByPower(vset) ==
    LET keys == SortedKeys(DOMAIN vset)
    IN  SortByPower([i \in 1..Len(keys) |-> vset[keys[i]]])

\* validators_info.iter().take(active_validator_limit).map(identity_key)
TopValidators(validators_info, active_validator_limit) ==
    {validators_info[i].validator.identity_key :
        i \in 1..(IF active_validator_limit < Len(validators_info)
                  THEN active_validator_limit ELSE Len(validators_info))}

\* The body of the loop for one entry vi of the sorted clone.  The state that
\* decides is the one of the clone, taken before the loop started.
TransitionOne(vset, vi, top_validators, current_epoch, unbonding_epochs) ==
    LET validator_status == vi.status
        ck == vi.validator.consensus_key
        first ==
            IF validator_status.state.name \in {"Inactive", "Unbonding"}
            THEN IF validator_status.identity_key \in top_validators
                 THEN ActivateValidator(vset, <<>>, ck)
                 ELSE Outcome(TRUE, vset, <<>>)
            ELSE IF validator_status.state.name = "Active"
                 THEN IF validator_status.identity_key \notin top_validators
                      THEN UnbondValidator(vset, <<>>, ck,
                                           current_epoch.index + unbonding_epochs)
                      ELSE Outcome(TRUE, vset, <<>>)
                 ELSE Outcome(TRUE, vset, <<>>)
    IN  IF ~ first.ok THEN first
        ELSE IF /\ validator_status.state.name = "Unbonding"
                /\ validator_status.state.unbonding_epoch <= current_epoch.index
             THEN DeactivateValidator(first.vset, <<>>, ck)
             ELSE first

RECURSIVE TransitionLoop(_, _, _, _, _)
TransitionLoop(vset, validators_info, top_validators, current_epoch, unbonding_epochs) ==
    IF validators_info = <<>> THEN Outcome(TRUE, vset, <<>>)
    ELSE LET one == TransitionOne(vset, Head(validators_info), top_validators,
                                  current_epoch, unbonding_epochs)
         IN  IF ~ one.ok THEN one
             ELSE TransitionLoop(one.vset, Tail(validators_info), top_validators,
                                 current_epoch, unbonding_epochs)

\* process_epoch_transitions: [ok, vset]; on an error the transitions made
\* before it stay.
ProcessEpochTransitionsOn(vset, active_validator_limit, current_epoch, unbonding_epochs) ==
    LET validators_info == ValidatorsInfoByPower(vset)
        top_validators == TopValidators(validators_info, active_validator_limit)
    IN  TransitionLoop(vset, validators_info, top_validators, current_epoch,
                       unbonding_epochs)

(***************************************************************************)
(* end_epoch.  What the Reader returns is the input r of the call:         *)
(*   r.base_rate           base_rate_data(current_epoch.index)             *)
(*   r.staking_token_supply  asset_lookup(STAKING_TOKEN_ASSET_ID)          *)
(*   r.delegation_changes  delegation_changes(prev_epoch.index)            *)
(*   r.funding_streams[k]  funding_streams(k)                              *)
(*   r.delegation_supply[k]  asset_lookup(k.delegation_token().id())       *)
(*   r.fail   the read at which the call stops: <<"none", 0>> when every   *)
(*            read answers, else the name of the read and the identity key *)
(*            it is made for (0 for the reads before the loop)             *)
(*   r.stop   how the call stops there: "err" when the read returns an     *)
(*            error, "dropped" when the future of end_epoch is dropped     *)
(*            while the read is pending.                                   *)
(* An Option the store returns is a sequence: <<>> for None, <<x>> for     *)
(* Some(x).  The future borrows the ValidatorSet mutably, so no other call *)
(* runs between two of its reads: what it has written so far shows only    *)
(* when it returns or is dropped.                                          *)
(***************************************************************************)
\* The call stops at the read made for k (0: before the loop).
StopsAt(r, read, k) == r.fail = <<read, k>>

STAKING_TOKEN_ASSET_ID == <<"upenumbra", 0>>

\* identity_key.delegation_token().id()
DelegationTokenId(ik) == <<"udelegation", ik>>

Abs(x) == IF x < 0 THEN -x ELSE x

\* FundingStream::reward_amount
RewardAmount(stream, total_delegation_tokens, base_rate_data, prev_epoch_rate_data) ==
    MulDiv(MulDiv(MulDiv(total_delegation_tokens, stream.rate_bps * BPS_SCALE, FP_SCALE),
                  base_rate_data.base_reward_rate, FP_SCALE),
           prev_epoch_rate_data.base_exchange_rate, FP_SCALE)

\* The delegation changes end_epoch works with: the committed ones of the
\* store plus the ones of this block.
MergedDelegationChanges(committed, pending) ==
    [k \in DOMAIN committed \cup DOMAIN pending |->
        (IF k \in DOMAIN committed THEN committed[k] ELSE 0)
        + (IF k \in DOMAIN pending THEN pending[k] ELSE 0)]

\* Faulty reward notes: the streams are taken last to first.
RewardNotesForReversed(funding_streams, supply, next_base, current_base) ==
    [i \in 1..Len(funding_streams) |->
        LET stream == funding_streams[Len(funding_streams) + 1 - i]
        IN  [amount |-> RewardAmount(stream, supply, next_base, current_base),
             address |-> stream.address]]

RewardNotesFor(funding_streams, supply, next_base, current_base) ==
    [i \in 1..Len(funding_streams) |->
        [amount |-> RewardAmount(funding_streams[i], supply, next_base, current_base),
         address |-> funding_streams[i].address]]

\* A faulty turn of the loop: the stake is valued at the next rate.
\* acc = [status, vset, staking_token_supply, next_rates, reward_notes, supply_updates]
RateStepNextRate(acc, k, r, changes, next_base, current_base) ==
    LET validator == acc.vset[k]
        current_rate == validator.rate_data
        identity_key == validator.validator.identity_key
        funding_streams == r.funding_streams[identity_key]
        next_rate == RateDataNext(current_rate, next_base, funding_streams,
                                  validator.status.state)
        delegation_delta == IF identity_key \in DOMAIN changes
                            THEN changes[identity_key] ELSE 0
        delegation_amount == Abs(delegation_delta)
        unbonded_amount == UnbondedAmount(next_rate, delegation_amount)
        committed_supply == r.delegation_supply[identity_key]
        staking == IF delegation_delta > 0
                   THEN acc.staking_token_supply - unbonded_amount
                   ELSE acc.staking_token_supply + unbonded_amount
        delegation_token_supply ==
                   IF delegation_delta > 0
                   THEN committed_supply + delegation_amount
                   ELSE committed_supply - delegation_amount
        voting_power == VotingPower(next_rate, delegation_token_supply, next_base)
    IN  IF StopsAt(r, "funding_streams", k) THEN [acc EXCEPT !.status = r.stop]
        ELSE IF RateDataNextPanics(funding_streams, validator.status.state)
        THEN [acc EXCEPT !.status = "panic"]
        ELSE IF StopsAt(r, "asset_lookup", k) THEN [acc EXCEPT !.status = r.stop]
        ELSE IF staking < 0 \/ delegation_token_supply < 0
        THEN [acc EXCEPT !.status = "panic"]
        ELSE [status |-> "ok",
              vset |-> [acc.vset EXCEPT ![k].status.voting_power = voting_power],
              staking_token_supply |-> staking,
              next_rates |-> Append(acc.next_rates, next_rate),
              reward_notes |->
                  IF validator.status.state = Active
                  THEN acc.reward_notes
                       \o RewardNotesFor(funding_streams, delegation_token_supply,
                                         next_base, current_base)
                  ELSE acc.reward_notes,
              supply_updates |->
                  Append(acc.supply_updates,
                         [id |-> DelegationTokenId(identity_key),
                          total_supply |-> delegation_token_supply])]

\* One turn of the loop over validator_set, for the validator under key k.
\* acc = [status, vset, staking_token_supply, next_rates, reward_notes, supply_updates]
RateStep(acc, k, r, changes, next_base, current_base) ==
    LET validator == acc.vset[k]
        current_rate == validator.rate_data
        identity_key == validator.validator.identity_key
        funding_streams == r.funding_streams[identity_key]
        next_rate == RateDataNext(current_rate, next_base, funding_streams,
                                  validator.status.state)
        delegation_delta == IF identity_key \in DOMAIN changes
                            THEN changes[identity_key] ELSE 0
        delegation_amount == Abs(delegation_delta)
        unbonded_amount == UnbondedAmount(current_rate, delegation_amount)
        committed_supply == r.delegation_supply[identity_key]
        staking == IF delegation_delta > 0
                   THEN acc.staking_token_supply - unbonded_amount
                   ELSE acc.staking_token_supply + unbonded_amount
        delegation_token_supply ==
                   IF delegation_delta > 0
                   THEN committed_supply + delegation_amount
                   ELSE committed_supply - delegation_amount
        voting_power == VotingPower(next_rate, delegation_token_supply, next_base)
    IN  IF StopsAt(r, "funding_streams", k) THEN [acc EXCEPT !.status = r.stop]
        ELSE IF RateDataNextPanics(funding_streams, validator.status.state)
        THEN [acc EXCEPT !.status = "panic"]
        ELSE IF StopsAt(r, "asset_lookup", k) THEN [acc EXCEPT !.status = r.stop]
        ELSE IF staking < 0 \/ delegation_token_supply < 0
        THEN [acc EXCEPT !.status = "panic"]
        ELSE [status |-> "ok",
              vset |-> [acc.vset EXCEPT ![k].status.voting_power = voting_power],
              staking_token_supply |-> staking,
              next_rates |-> Append(acc.next_rates, next_rate),
              reward_notes |->
                  IF validator.status.state = Active
                  THEN acc.reward_notes
                       \o RewardNotesFor(funding_streams, delegation_token_supply,
                                         next_base, current_base)
                  ELSE acc.reward_notes,
              supply_updates |->
                  Append(acc.supply_updates,
                         [id |-> DelegationTokenId(identity_key),
                          total_supply |-> delegation_token_supply])]

RECURSIVE RateLoop(_, _, _, _, _, _)
RateLoop(acc, keys, r, changes, next_base, current_base) ==
    IF keys = <<>> \/ acc.status # "ok" THEN acc
    ELSE RateLoop(RateStep(acc, Head(keys), r, changes, next_base, current_base),
                  Tail(keys), r, changes, next_base, current_base)

RECURSIVE AddSupplyUpdates(_, _)
\* add_supply_update for each collected update, in order
AddSupplyUpdates(m, updates) ==
    IF updates = <<>> THEN m
    ELSE AddSupplyUpdates(MapPut(m, Head(updates).id, Head(updates).total_supply),
                          Tail(updates))

\* The whole of end_epoch on the state st (the fields of the ValidatorSet it
\* reads or writes) with the reader's answers r: the outcome and the fields
\* after the call.
EndEpochOn(st, r) ==
    LET prev_epoch == st.epoch
        this_epoch == EpochNext(prev_epoch)
        current_base_rate == r.base_rate
        next_base == BaseRateDataNext(current_base_rate, BASE_REWARD_RATE)
        changes == MergedDelegationChanges(r.delegation_changes, st.delegation_changes)
        loop == RateLoop([status |-> "ok", vset |-> st.validator_set,
                          staking_token_supply |-> r.staking_token_supply[1],
                          next_rates |-> <<>>, reward_notes |-> <<>>,
                          supply_updates |-> <<>>],
                         SortedKeys(DOMAIN st.validator_set), r, changes,
                         next_base, current_base_rate)
        pet == ProcessEpochTransitionsOn(loop.vset,
                                         st.chain_params.active_validator_limit,
                                         this_epoch,
                                         st.chain_params.unbonding_epochs)
        returned(result, vset) ==
            [result |-> result, validator_set |-> vset,
             next_rates |-> st.next_rates, next_base_rate |-> st.next_base_rate,
             reward_notes |-> st.reward_notes, supply_updates |-> st.supply_updates]
    IN  IF StopsAt(r, "base_rate_data", 0) \/ StopsAt(r, "asset_lookup", 0)
        THEN returned(r.stop, st.validator_set)
        ELSE IF r.staking_token_supply = <<>> THEN returned("panic", st.validator_set)
        ELSE IF StopsAt(r, "delegation_changes", 0)
        THEN returned(r.stop, st.validator_set)
        ELSE IF loop.status # "ok" THEN returned(loop.status, loop.vset)
        ELSE IF ~ pet.ok THEN returned("err", pet.vset)
        ELSE [result |-> "ok",
              validator_set |-> pet.vset,
              next_rates |-> loop.next_rates,
              next_base_rate |-> next_base,
              reward_notes |-> loop.reward_notes,
              supply_updates |->
                  MapPut(AddSupplyUpdates(st.supply_updates, loop.supply_updates),
                         STAKING_TOKEN_ASSET_ID, loop.staking_token_supply)]

\* The funding streams the store holds: one stream of 20%, or two of 60%
\* each (more than 100% together).
FundingStreamLists ==
    {<<[address |-> 1, rate_bps |-> 2000]>>,
     <<[address |-> 1, rate_bps |-> 6000], [address |-> 2, rate_bps |-> 6000]>>}

\* The reads of end_epoch, in the order it makes them.
ReadPoints ==
    {<<"none", 0>>, <<"base_rate_data", 0>>, <<"asset_lookup", 0>>,
     <<"delegation_changes", 0>>}
    \cup {<<read, k>> : read \in {"funding_streams", "asset_lookup"},
                        k \in IdentityKeys}

\* The answers a reader can give to an end_epoch whose current epoch has
\* index i.  The committed delegation-token supply of validator k is
\* k * SupplyUnit; the funding streams are the same list for every validator.
\* The store lacks the staking token only in calls that stop at no read of
\* the loop.
ReaderAnswers(i) ==
    {r \in [base_rate : {[epoch_index |-> i, base_reward_rate |-> BASE_REWARD_RATE,
                          base_exchange_rate |-> FP_SCALE]},
            staking_token_supply : {<<>>, <<StakingSupply>>},
            delegation_changes : {EmptyMap},
            funding_streams : {[k \in IdentityKeys |-> fs] : fs \in FundingStreamLists},
            delegation_supply : {[k \in IdentityKeys |-> k * SupplyUnit]},
            fail : ReadPoints,
            stop : {"err", "dropped"}] :
        /\ r.fail = <<"none", 0>> => r.stop = "err"
        /\ r.staking_token_supply = <<>> => r.fail[2] = 0}

EndEpoch(r) ==
    LET out == EndEpochOn([validator_set |-> validator_set,
                           delegation_changes |-> delegation_changes,
                           epoch |-> epoch, chain_params |-> chain_params,
                           next_rates |-> next_rates,
                           next_base_rate |-> next_base_rate,
                           reward_notes |-> reward_notes,
                           supply_updates |-> supply_updates], r)
    IN  /\ Running
        /\ calls' = calls + 1
        /\ r.fail[2] \in {0} \cup DOMAIN validator_set
        /\ validator_set' = out.validator_set
        /\ next_rates' = out.next_rates
        /\ next_base_rate' = out.next_base_rate
        /\ reward_notes' = out.reward_notes
        /\ supply_updates' = out.supply_updates
        /\ last' = [op |-> "end_epoch", result |-> out.result,
                    staking_token_supply |-> r.staking_token_supply,
                    committed_changes |-> r.delegation_changes]
        /\ UNCHANGED <<validator_definitions, new_validators, updated_validators,
                       slashed_validators, delegation_changes, epoch,
                       tm_validator_updates, chain_params>>

\* process_epoch_transitions, called by end_epoch or from outside with any
\* arguments.
ProcessEpochTransitions(active_validator_limit, current_epoch, unbonding_epochs) ==
    LET out == ProcessEpochTransitionsOn(validator_set, active_validator_limit,
                                         current_epoch, unbonding_epochs)
    IN  /\ Running
        /\ calls' = calls + 1
        /\ validator_set' = out.vset
        /\ last' = [op |-> "process_epoch_transitions",
                    result |-> IF out.ok THEN "ok" ELSE "err",
                    active_validator_limit |-> active_validator_limit,
                    current_epoch |-> current_epoch,
                    unbonding_epochs |-> unbonding_epochs]
        /\ UNCHANGED <<validator_definitions, new_validators, updated_validators,
                       slashed_validators, delegation_changes, epoch, next_base_rate,
                       next_rates, tm_validator_updates, reward_notes, supply_updates,
                       chain_params>>

\* A transition call: validator_set and slashed_validators become what the
\* operation leaves; last records the call, the validator it found, the
\* state that validator was in and, for slash_validator, the penalty.
Transition(op, ck, penalty, out) ==
    LET ik == GetValidatorByConsensusKey(validator_set, ck) IN
    /\ Running
    /\ calls' = calls + 1
    /\ Len(out.slashed) <= MaxList
    /\ validator_set' = out.vset
    /\ slashed_validators' = out.slashed
    /\ last' = [op |-> op, result |-> IF out.ok THEN "ok" ELSE "err", ck |-> ck,
                ik |-> ik, penalty |-> penalty,
                from |-> IF ik \in DOMAIN validator_set
                         THEN validator_set[ik].status.state ELSE None]
    /\ UNCHANGED <<validator_definitions, new_validators, updated_validators,
                   delegation_changes, epoch, next_base_rate, next_rates,
                   tm_validator_updates, reward_notes, supply_updates, chain_params>>

DeactivateValidatorCall(ck) ==
    Transition("deactivate_validator", ck, None,
               DeactivateValidator(validator_set, slashed_validators, ck))

ActivateValidatorCall(ck) ==
    Transition("activate_validator", ck, None,
               ActivateValidator(validator_set, slashed_validators, ck))

SlashValidatorCall(ck, slashing_penalty) ==
    Transition("slash_validator", ck, slashing_penalty,
               SlashValidator(validator_set, slashed_validators, ck, slashing_penalty))

UnbondValidatorCall(ck, unbonding_epoch) ==
    Transition("unbond_validator", ck, None,
               UnbondValidator(validator_set, slashed_validators, ck, unbonding_epoch))

(***************************************************************************)
(* The inputs of the calls and the specification.                          *)
(***************************************************************************)
SlashingPenalties == {1000}

\* The epochs a block can belong to: the current one or the one after it.
BlockEpochs == {Epoch(i) : i \in {epoch.index, epoch.index + 1} \cap 0..MaxEpoch}

DelegationMaps ==
    UNION {[S -> {-DeltaUnit, DeltaUnit}] : S \in SUBSET IdentityKeys \ {{}}}

InDeltaBounds(dc) == \A k \in DOMAIN dc : Abs(dc[k]) <= MaxDelta

\* The definitions the calls of Next add: one per block, first of its
\* sequence, with the smallest signature of its configuration.
FirstDefinitions ==
    {d \in VerifiedValidatorDefinitions :
        /\ d.validator.sequence_number = 1
        /\ \A e \in VerifiedValidatorDefinitions :
              e.validator = d.validator => ~ BytesLess(e.auth_sig, d.auth_sig)}

\* The arguments process_epoch_transitions is called with from outside.
TransitionEpochs == {Epoch(i) : i \in 1..MaxEpoch}

\* The ValidatorInfo add_validator is called with from outside: one
\* validator's configuration, status and rate data, Active or Slashed, with
\* voting power.
AddedValidators ==
    {[GenesisValidatorInfo(ik, state) EXCEPT !.status.voting_power = 7] :
        ik \in IdentityKeys, state \in {Active, Slashed}}

Next ==
    \/ \E d \in FirstDefinitions :
          calls < MaxCalls /\ PendingDefinitions < 1 /\ AddValidatorDefinition(d)
    \/ \E changes \in DelegationMaps :
          /\ calls < MaxCalls
          /\ InDeltaBounds(UpdateDelegationsMap(delegation_changes, changes))
          /\ UpdateDelegations(changes)
    \/ \E ep \in BlockEpochs : calls < MaxCalls /\ EndBlock(ep)
    \/ \E ep \in BlockEpochs : calls < MaxCalls /\ CommitBlock(ep)
    \/ \E r \in ReaderAnswers(epoch.index + 1) : calls < MaxCalls /\ EndEpoch(r)
    \/ \E limit \in 1..MaxLimit, current_epoch \in TransitionEpochs,
          unbonding_epochs \in 1..MaxUnbonding :
          calls < MaxCalls
             /\ ProcessEpochTransitions(limit, current_epoch, unbonding_epochs)
    \/ calls < MaxCalls /\ UpdateSupplyForDenom(STAKING_TOKEN_ASSET_ID, SupplyUnit)
    \/ calls < MaxCalls /\ AddSupplyUpdate(STAKING_TOKEN_ASSET_ID, 5)
    \/ \E validator \in AddedValidators : calls < MaxCalls /\ AddValidatorCall(validator)
    \/ \E ck \in ConsensusKeys : calls < MaxCalls /\ ActivateValidatorCall(ck)
    \/ \E ck \in ConsensusKeys : calls < MaxCalls /\ DeactivateValidatorCall(ck)
    \/ \E ck \in ConsensusKeys, p \in SlashingPenalties :
          calls < MaxCalls /\ SlashValidatorCall(ck, p)
    \/ \E ck \in ConsensusKeys, ue \in 1..(MaxEpoch + MaxUnbonding) :
          calls < MaxCalls /\ UnbondValidatorCall(ck, ue)

Spec == Init /\ [][Next]_vars

\* The calls of one block, with every verified definition: up to MaxPending
\* definitions, then end_block and commit_block.  The validators the store
\* holds at construction are all Active.
InitDefs ==
    /\ Init
    /\ chain_params.active_validator_limit = MaxLimit
    /\ \A k \in DOMAIN validator_set : validator_set[k].status.state = Active

NextDefs ==
    \/ \E d \in VerifiedValidatorDefinitions :
          /\ calls < MaxPending + 1
          /\ PendingDefinitions < MaxPending
          /\ AddValidatorDefinition(d)
    \/ \E ep \in BlockEpochs : calls < MaxPending + 1 /\ EndBlock(ep)
    \/ \E ep \in BlockEpochs : calls < MaxPending + 1 /\ CommitBlock(ep)

SpecDefs == InitDefs /\ [][NextDefs]_vars

(***************************************************************************)
(* The rate functions.  The store is constructed from one validator the    *)
(* database holds, in any state, with any of the rates below; the calls    *)
(* are RateData::next on the rate data and the state of that validator,    *)
(* and slash_validator.  All rates stay below 2^31, where none of the      *)
(* 64-bit products of rate.rs can overflow.                                *)
(***************************************************************************)
RewardRates == {0, 1, BASE_REWARD_RATE, FP_SCALE - 1, 3 * FP_SCALE}

ExchangeRates == {1, FP_SCALE, 123456789, 5 * FP_SCALE}

RateStates == {Inactive, Active, Slashed, Unbonding(1)}

RatePowers == {0, 99}

RateBaseRates ==
    [epoch_index : {1},
     base_reward_rate : {0, BASE_REWARD_RATE, FP_SCALE + 1},
     base_exchange_rate : {FP_SCALE}]

\* Funding streams summing to 0, 2000, 10000 and 11000 basis points.
RateFundingStreams ==
    {<<>>,
     <<[address |-> 1, rate_bps |-> 2000]>>,
     <<[address |-> 1, rate_bps |-> 4000], [address |-> 2, rate_bps |-> 6000]>>,
     <<[address |-> 1, rate_bps |-> 5000], [address |-> 2, rate_bps |-> 6000]>>}

RatePenalties == {0, 1000, FP_SCALE \div 2, FP_SCALE, 2 * FP_SCALE}

\* A validator as the database returns it to ValidatorSet::new.
StoredValidatorInfo(ik, state, power, reward_rate, exchange_rate) ==
    [GenesisValidatorInfo(ik, state) EXCEPT
        !.status.voting_power = power,
        !.rate_data.validator_reward_rate = reward_rate,
        !.rate_data.validator_exchange_rate = exchange_rate]

InitRate ==
    /\ chain_params = [active_validator_limit |-> 1, unbonding_epochs |-> 1]
    /\ \E st \in RateStates, vp \in RatePowers,
          rr \in RewardRates, er \in ExchangeRates :
            validator_set = [k \in {1} |-> StoredValidatorInfo(k, st, vp, rr, er)]
    /\ validator_definitions = EmptyMap
    /\ new_validators = <<>>
    /\ updated_validators = <<>>
    /\ slashed_validators = <<>>
    /\ delegation_changes = EmptyMap
    /\ epoch = Epoch(0)
    /\ next_base_rate = None
    /\ next_rates = None
    /\ tm_validator_updates = <<>>
    /\ reward_notes = <<>>
    /\ supply_updates = EmptyMap
    /\ last = [op |-> "new", result |-> "ok"]
    /\ calls = 0

\* rate_data.next(base_rate_data, funding_streams, state) on the rate data
\* and the state of validator k, as end_epoch calls it.  Nothing of the
\* store changes; last records the arguments and the value returned.
RateDataNextCall(k, base_rate_data, funding_streams) ==
    LET self == validator_set[k].rate_data
        state == validator_set[k].status.state
        panics == RateDataNextPanics(funding_streams, state)
    IN  /\ Running
        /\ calls' = calls + 1
        /\ last' = [op |-> "rate_data_next",
                    result |-> IF panics THEN "panic" ELSE "ok",
                    self |-> self,
                    base_rate_data |-> base_rate_data,
                    funding_streams |-> funding_streams,
                    state |-> state,
                    value |-> IF panics THEN None
                              ELSE RateDataNext(self, base_rate_data,
                                                funding_streams, state)]
        /\ UNCHANGED <<validator_set, validator_definitions, new_validators,
                       updated_validators, slashed_validators, delegation_changes,
                       epoch, next_base_rate, next_rates, tm_validator_updates,
                       reward_notes, supply_updates, chain_params>>

NextRate ==
    \/ \E k \in DOMAIN validator_set, b \in RateBaseRates, fs \in RateFundingStreams :
          calls < MaxCalls /\ RateDataNextCall(k, b, fs)
    \/ \E ck \in ConsensusKeys, p \in RatePenalties :
          calls < MaxCalls /\ SlashValidatorCall(ck, p)

SpecRate == InitRate /\ [][NextRate]_vars

(***************************************************************************)
(* The supply accounting of end_epoch.  The store is constructed from a    *)
(* validator per identity key, in any state, with any of the rates         *)
(* below; the calls are update_delegations, commit_block and end_epoch,    *)
(* whose reader holds a staking token supply of StakingSupply or of        *)
(* nothing, and committed delegation changes for the first validator or    *)
(* none.                                                                   *)
(***************************************************************************)
SupplyRewardRates == {0, FP_SCALE \div 2}

SupplyExchangeRates == {FP_SCALE \div 2, 123456789}

\* The funding streams of the store: one stream of 20%, two of 30% and 10%,
\* or two of 60% each (more than 100% together).
SupplyFundingStreamLists ==
    FundingStreamLists
    \cup {<<[address |-> 1, rate_bps |-> 3000], [address |-> 2, rate_bps |-> 1000]>>}

\* The committed supply of the delegation token of validator k.
CommittedSupply(k) == k * SupplyUnit * SupplyUnit * SupplyUnit

SupplyReaderAnswers(i) ==
    [base_rate : {[epoch_index |-> i, base_reward_rate |-> BASE_REWARD_RATE,
                   base_exchange_rate |-> FP_SCALE]},
     staking_token_supply : {<<0>>, <<StakingSupply>>},
     delegation_changes : {EmptyMap, [k \in {1} |-> -DeltaUnit]},
     funding_streams : {[k \in IdentityKeys |-> fs] : fs \in SupplyFundingStreamLists},
     delegation_supply : {[k \in IdentityKeys |-> CommittedSupply(k)]},
     fail : {<<"none", 0>>},
     stop : {"err"}]

InitSupply ==
    /\ chain_params = [active_validator_limit |-> MaxLimit, unbonding_epochs |-> 1]
    /\ \E st \in [IdentityKeys -> {Inactive, Active, Slashed, Unbonding(MaxEpoch)}],
          rr \in [IdentityKeys -> SupplyRewardRates],
          er \in [IdentityKeys -> SupplyExchangeRates] :
            validator_set =
                [k \in IdentityKeys |-> StoredValidatorInfo(k, st[k], 0, rr[k], er[k])]
    /\ validator_definitions = EmptyMap
    /\ new_validators = <<>>
    /\ updated_validators = <<>>
    /\ slashed_validators = <<>>
    /\ delegation_changes = EmptyMap
    /\ epoch = Epoch(0)
    /\ next_base_rate = None
    /\ next_rates = None
    /\ tm_validator_updates = <<>>
    /\ reward_notes = <<>>
    /\ supply_updates = EmptyMap
    /\ last = [op |-> "new", result |-> "ok"]
    /\ calls = 0

NextSupply ==
    \/ /\ calls < MaxCalls - 1
       /\ \E changes \in DelegationMaps :
             /\ InDeltaBounds(UpdateDelegationsMap(delegation_changes, changes))
             /\ UpdateDelegations(changes)
    \/ /\ calls < MaxCalls - 1
       /\ \E r \in SupplyReaderAnswers(epoch.index + 1) : EndEpoch(r)
    \/ /\ calls < MaxCalls - 1
       /\ \E ep \in BlockEpochs : CommitBlock(ep)

SpecSupply == InitSupply /\ [][NextSupply]_vars

(***************************************************************************)
(* The rate functions on u64 values of any size.  The functions are pure:  *)
(* the store is the empty one and no call changes it; last records the     *)
(* arguments of the call and what it returned.  A call depends on nothing  *)
(* but its arguments, so behaviours of MaxRateCalls calls show them all.    *)
(***************************************************************************)
\* 200_000_000_000: an exchange rate of 2000, in units of 1e-8
LargeRate == BigMul(BigOf(2000), BigOf(FP_SCALE))

U64Rates == {<<>>, BigOf(1), BigOf(FP_SCALE), LargeRate, U64Max}

U64Amounts == {BigOf(1), BigOf(StakingSupply), LargeRate, U64Max}

U64Commissions == {0, 2000}

InitWide ==
    /\ Init
    /\ validator_set = EmptyMap
    /\ chain_params = [active_validator_limit |-> 1, unbonding_epochs |-> 1]

\* What a call of a rate function leaves: only last changes.
RateCall(call, out) ==
    /\ Running
    /\ calls' = calls + 1
    /\ last' = call @@ [result |-> IF out.panic THEN "panic" ELSE "ok",
                        value |-> out.value]
    /\ UNCHANGED <<validator_set, validator_definitions, new_validators,
                   updated_validators, slashed_validators, delegation_changes,
                   epoch, next_base_rate, next_rates, tm_validator_updates,
                   reward_notes, supply_updates, chain_params>>

U64RateDataNextCall(self, base_rate_data, commission_rate_bps, overflow_checks) ==
    RateCall([op |-> "u64_rate_data_next", self |-> self,
              base_rate_data |-> base_rate_data,
              commission_rate_bps |-> commission_rate_bps,
              overflow_checks |-> overflow_checks],
             U64RateDataNext(self, base_rate_data, commission_rate_bps,
                             overflow_checks))

U64BaseRateDataNextCall(self, base_reward_rate, overflow_checks) ==
    RateCall([op |-> "u64_base_rate_data_next", self |-> self,
              base_reward_rate |-> base_reward_rate,
              overflow_checks |-> overflow_checks],
             U64BaseRateDataNext(self, base_reward_rate, overflow_checks))

U64RateDataSlashCall(self, slashing_penalty, overflow_checks) ==
    RateCall([op |-> "u64_slash", self |-> self,
              slashing_penalty |-> slashing_penalty,
              overflow_checks |-> overflow_checks],
             U64RateDataSlash(self, slashing_penalty, overflow_checks))

U128DelegationAmountCall(self, unbonded_amount) ==
    RateCall([op |-> "u128_delegation_amount", self |-> self,
              unbonded_amount |-> unbonded_amount],
             U128DelegationAmount(self, unbonded_amount))

U128UnbondedAmountCall(self, delegation_amount) ==
    RateCall([op |-> "u128_unbonded_amount", self |-> self,
              delegation_amount |-> delegation_amount],
             U128UnbondedAmount(self, delegation_amount))

U128VotingPowerCall(self, total_delegation_tokens, base_rate_data) ==
    RateCall([op |-> "u128_voting_power", self |-> self,
              total_delegation_tokens |-> total_delegation_tokens,
              base_rate_data |-> base_rate_data],
             U128VotingPower(self, total_delegation_tokens, base_rate_data))

\* Epoch indices: an early epoch and the last a u64 can count.
U64EpochIndices == {BigOf(1), U64Max}

U64RateData ==
    [epoch_index : U64EpochIndices, validator_reward_rate : U64Rates,
     validator_exchange_rate : U64Rates]

U64BaseRateData ==
    [epoch_index : U64EpochIndices, base_reward_rate : U64Rates,
     base_exchange_rate : U64Rates]

\* The rate data the conversions between stake and delegation tokens are
\* called on: exchange rates below, at and above 1.0 that divide unevenly.
U64ExchangeRateData ==
    [epoch_index : {BigOf(1)}, validator_reward_rate : {<<>>},
     validator_exchange_rate :
         U64Rates \cup {BigOf(3), BigOf(FP_SCALE - 1), BigOf(FP_SCALE + FP_SCALE \div 2)}]

U64ConvertedAmounts == U64Amounts \cup {BigOf(7), BigOf(StakingSupply - 1)}

NextWide ==
    \/ \E self \in U64RateData, b \in U64BaseRateData, c \in U64Commissions,
          oc \in BOOLEAN :
          /\ calls < MaxRateCalls
          /\ b.base_exchange_rate = BigOf(FP_SCALE)
          /\ b.epoch_index = self.epoch_index
          /\ U64RateDataNextCall(self, b, c, oc)
    \/ \E b \in U64BaseRateData, rr \in U64Rates \cup {BigOf(BASE_REWARD_RATE)}, oc \in BOOLEAN :
          /\ calls < MaxRateCalls
          /\ b.base_reward_rate = <<>>
          /\ U64BaseRateDataNextCall(b, rr, oc)
    \/ \E self \in U64RateData, p \in U64Rates, oc \in BOOLEAN :
          /\ calls < MaxRateCalls
          /\ self.validator_exchange_rate = BigOf(FP_SCALE)
          /\ self.epoch_index = BigOf(1)
          /\ U64RateDataSlashCall(self, p, oc)
    \/ \E self \in U64ExchangeRateData, a \in U64ConvertedAmounts :
          /\ calls < MaxRateCalls
          /\ U128DelegationAmountCall(self, a)
    \/ \E self \in U64ExchangeRateData, a \in U64ConvertedAmounts :
          /\ calls < MaxRateCalls
          /\ U128UnbondedAmountCall(self, a)
    \/ \E self \in U64RateData, a \in U64Amounts, b \in U64BaseRateData :
          /\ calls < MaxRateCalls
          /\ self.validator_reward_rate = <<>>
          /\ b.base_reward_rate = <<>>
          /\ self.epoch_index = BigOf(1)
          /\ b.epoch_index = BigOf(1)
          /\ U128VotingPowerCall(self, a, b)

SpecWide == InitWide /\ [][NextWide]_vars

(***************************************************************************)
(* Transparent proofs.  The primitives verify calls are outside the        *)
(* sources at hand; they are modelled by what the specification says of    *)
(* them.  The group is the integers modulo GroupOrder under addition, 0    *)
(* the identity and 1 the basepoint.  A field element or a scalar is       *)
(* encoded by a number below GroupOrder; 32 bytes that encode no field     *)
(* element are a number from GroupOrder on.  Commitments and nullifiers    *)
(* are the records of what they commit to, so that they are injective.     *)
(***************************************************************************)
Elements == 0..(GroupOrder - 1)

\* decaf377::Element::is_identity
IsIdentity(g) == g = 0

\* Fq::from_bytes
FqFromBytes(bytes) == [ok |-> bytes < GroupOrder, value |-> bytes]

\* ka::Secret::diversified_public, IncomingViewingKey::diversified_public
DiversifiedPublic(secret, g_d) == (secret * g_d) % GroupOrder

\* FullViewingKey::from_components(ak, nk).incoming()
IncomingViewingKey(ak, nk) == (ak + 2 * nk) % GroupOrder

\* VerificationKey::randomize: ak + r * basepoint
Randomize(ak, r) == (ak + r) % GroupOrder

\* note::Commitment::new
NoteCommitmentNew(note_blinding, value, g_d, transmission_key_s) ==
    [note_blinding |-> note_blinding, amount |-> value.amount,
     asset_id |-> value.asset_id, g_d |-> g_d,
     transmission_key_s |-> transmission_key_s]

\* note::Commitment::combine
Combine(lvl, a, b) == [lvl |-> lvl, left |-> a, right |-> b]

\* Value::commit
ValueCommit(value, v_blinding) ==
    [amount |-> value.amount, asset_id |-> value.asset_id,
     v_blinding |-> v_blinding, negated |-> FALSE]

\* Neg for value::Commitment
Negated(commitment) == [commitment EXCEPT !.negated = ~ @]

\* NullifierKey::derive_nullifier
DeriveNullifier(nk, position, note_commitment) ==
    [nk |-> nk, position |-> position, note_commitment |-> note_commitment]

RECURSIVE RootFromSwapped(_, _, _, _)
\* A faulty fold: the sibling is the right child when the bit is 1.
RootFromSwapped(cur, path, position, lvl) ==
    IF lvl = Len(path) THEN cur
    ELSE LET v == path[lvl + 1]
             i == ((position \div (2 ^ lvl)) % 2) = 1
         IN  RootFromSwapped(IF i THEN Combine(lvl, cur, v) ELSE Combine(lvl, v, cur),
                             path, position, lvl + 1)

RECURSIVE RootFrom(_, _, _, _)
\* The fold of SpendProof::verify over the authentication path: at level
\* lvl the sibling path[lvl + 1] is the left child when bit lvl of position
\* is 1, the right child otherwise.
RootFrom(cur, path, position, lvl) ==
    IF lvl = Len(path) THEN cur
    ELSE LET v == path[lvl + 1]
             i == ((position \div (2 ^ lvl)) % 2) = 1
         IN  RootFrom(IF i THEN Combine(lvl, v, cur) ELSE Combine(lvl, cur, v),
                      path, position, lvl + 1)

ValueOf(proof) == [amount |-> proof.value_amount, asset_id |-> proof.value_asset_id]

\* SpendProof::verify, were the spend authority checked before the
\* nullifier.
SpendProofVerifyRandomizerFirst(self, anchor, value_commitment, nullifier, rk) ==
    LET s_component_transmission_key == FqFromBytes(self.pk_d)
    IN  IF ~ s_component_transmission_key.ok THEN "TransmissionKeyMismatch"
        ELSE IF self.note_commitment
                    # NoteCommitmentNew(self.note_blinding, ValueOf(self), self.g_d,
                                        s_component_transmission_key.value)
        THEN "NoteCommitmentMismatch"
        ELSE IF Len(self.merkle_path_1) # DEPTH THEN "MerklePathMismatch"
        ELSE IF RootFrom(self.note_commitment, self.merkle_path_1, self.position, 0)
                    # anchor
        THEN "MerkleRootMismatch"
        ELSE IF ValueCommit(ValueOf(self), self.v_blinding) # value_commitment
        THEN "ValueCommitmentMismatch"
        ELSE IF IsIdentity(self.g_d) \/ IsIdentity(self.ak) THEN "IdentityUnexpected"
        ELSE IF rk # Randomize(self.ak, self.spend_auth_randomizer)
        THEN "InvalidSpendAuthRandomizer"
        ELSE IF nullifier
                    # DeriveNullifier(self.nk, self.position, self.note_commitment)
        THEN "BadNullifier"
        ELSE IF self.pk_d # DiversifiedPublic(IncomingViewingKey(self.ak, self.nk),
                                               self.g_d)
        THEN "InvalidDiversifiedAddress"
        ELSE "Ok"

\* SpendProof::verify: "Ok" or the name of the error returned.
SpendProofVerify(self, anchor, value_commitment, nullifier, rk) ==
    LET s_component_transmission_key == FqFromBytes(self.pk_d)
        note_commitment_test ==
            NoteCommitmentNew(self.note_blinding, ValueOf(self), self.g_d,
                              s_component_transmission_key.value)
    IN  IF ~ s_component_transmission_key.ok THEN "TransmissionKeyMismatch"
        ELSE IF self.note_commitment # note_commitment_test
        THEN "NoteCommitmentMismatch"
        ELSE IF Len(self.merkle_path_1) # DEPTH THEN "MerklePathMismatch"
        ELSE IF RootFrom(self.note_commitment, self.merkle_path_1, self.position, 0)
                    # anchor
        THEN "MerkleRootMismatch"
        ELSE IF ValueCommit(ValueOf(self), self.v_blinding) # value_commitment
        THEN "ValueCommitmentMismatch"
        ELSE IF IsIdentity(self.g_d) \/ IsIdentity(self.ak) THEN "IdentityUnexpected"
        ELSE IF nullifier
                    # DeriveNullifier(self.nk, self.position, self.note_commitment)
        THEN "BadNullifier"
        ELSE IF rk # Randomize(self.ak, self.spend_auth_randomizer)
        THEN "InvalidSpendAuthRandomizer"
        ELSE IF self.pk_d # DiversifiedPublic(IncomingViewingKey(self.ak, self.nk),
                                               self.g_d)
        THEN "InvalidDiversifiedAddress"
        ELSE "Ok"

\* OutputProof::verify, were the value commitment compared without negation.
OutputProofVerifyNotNegated(self, value_commitment, note_commitment, epk) ==
    LET s_component_transmission_key == FqFromBytes(self.pk_d)
        note_commitment_test ==
            NoteCommitmentNew(self.note_blinding, ValueOf(self), self.g_d,
                              s_component_transmission_key.value)
    IN  IF ~ s_component_transmission_key.ok THEN "TransmissionKeyMismatch"
        ELSE IF note_commitment # note_commitment_test THEN "NoteCommitmentMismatch"
        ELSE IF value_commitment # ValueCommit(ValueOf(self), self.v_blinding)
        THEN "ValueCommitmentMismatch"
        ELSE IF DiversifiedPublic(self.esk, self.g_d) # epk
        THEN "EphemeralPublicKeyMismatch"
        ELSE IF IsIdentity(self.g_d) THEN "IdentityUnexpected"
        ELSE "Ok"

\* OutputProof::verify: "Ok" or the name of the error returned.
OutputProofVerify(self, value_commitment, note_commitment, epk) ==
    LET s_component_transmission_key == FqFromBytes(self.pk_d)
        note_commitment_test ==
            NoteCommitmentNew(self.note_blinding, ValueOf(self), self.g_d,
                              s_component_transmission_key.value)
    IN  IF ~ s_component_transmission_key.ok THEN "TransmissionKeyMismatch"
        ELSE IF note_commitment # note_commitment_test THEN "NoteCommitmentMismatch"
        ELSE IF value_commitment # Negated(ValueCommit(ValueOf(self), self.v_blinding))
        THEN "ValueCommitmentMismatch"
        ELSE IF DiversifiedPublic(self.esk, self.g_d) # epk
        THEN "EphemeralPublicKeyMismatch"
        ELSE IF IsIdentity(self.g_d) THEN "IdentityUnexpected"
        ELSE "Ok"

(***************************************************************************)
(* The proofs verify is called on: a proof made for a note as a wallet     *)
(* makes it, with up to two of its fields replaced, against the public     *)
(* inputs of the proof as made, with up to one of them replaced.           *)
(***************************************************************************)
Positions == 0..(2 ^ DEPTH - 1)

SomeElements == 0..2

Blindings == 1..2

\* The commitment of another note of the tree.
OtherCommitment(i) == NoteCommitmentNew(i, [amount |-> 1, asset_id |-> 1], 1, 1)

\* The authentication path of the note: the other notes' commitments.
AuthenticationPath == [i \in 1..DEPTH |-> OtherCommitment(i)]

\* The witness of a spend of the note of value 10 at position, sent to the
\* address with diversified base g_d of the keys (ak, nk).
MadeSpendProof(ak, nk, g_d, position) ==
    LET pk_d == DiversifiedPublic(IncomingViewingKey(ak, nk), g_d)
        value == [amount |-> 10, asset_id |-> 1]
    IN  [merkle_path_0 |-> position,
         merkle_path_1 |-> AuthenticationPath,
         position |-> position,
         g_d |-> g_d,
         pk_d |-> pk_d,
         value_amount |-> value.amount,
         value_asset_id |-> value.asset_id,
         v_blinding |-> 1,
         note_commitment |-> NoteCommitmentNew(1, value, g_d, pk_d),
         note_blinding |-> 1,
         spend_auth_randomizer |-> 1,
         ak |-> ak,
         nk |-> nk]

\* The public inputs a proof is made for.
SpendPublicInputs(proof) ==
    [anchor |-> RootFrom(proof.note_commitment, proof.merkle_path_1,
                         proof.position, 0),
     value_commitment |-> ValueCommit(ValueOf(proof), proof.v_blinding),
     nullifier |-> DeriveNullifier(proof.nk, proof.position, proof.note_commitment),
     rk |-> Randomize(proof.ak, proof.spend_auth_randomizer)]

SpendProofFields ==
    {"merkle_path_0", "merkle_path_1", "position", "g_d", "pk_d", "value_amount",
     "value_asset_id", "v_blinding", "note_commitment", "note_blinding",
     "spend_auth_randomizer", "ak", "nk"}

\* The values a field of a proof may be replaced with.
FieldValues(proof, field) ==
    IF field \in {"merkle_path_0", "position"} THEN Positions
    ELSE IF field = "merkle_path_1"
    THEN {proof.merkle_path_1,
          [proof.merkle_path_1 EXCEPT ![1] = OtherCommitment(DEPTH + 1)],
          [proof.merkle_path_1 EXCEPT ![DEPTH] = OtherCommitment(DEPTH + 1)],
          SubSeq(proof.merkle_path_1, 1, DEPTH - 1),
          Append(proof.merkle_path_1, OtherCommitment(DEPTH + 1))}
    ELSE IF field \in {"g_d", "ak"} THEN SomeElements
    ELSE IF field = "pk_d" THEN 0..GroupOrder
    ELSE IF field = "value_amount" THEN {10, 11}
    ELSE IF field = "note_commitment"
    THEN {NoteCommitmentNew(proof.note_blinding, ValueOf(proof), g, s) :
             g \in SomeElements, s \in Elements}
    ELSE Blindings

\* The values a public input of a spend may be replaced with.
SpendInputValues(proof, input) ==
    IF input = "anchor"
    THEN {RootFrom(proof.note_commitment, AuthenticationPath, p, 0) : p \in Positions}
    ELSE IF input = "value_commitment"
    THEN {ValueCommit(ValueOf(proof), b) : b \in Blindings}
    ELSE IF input = "nullifier"
    THEN {DeriveNullifier(proof.nk, p, proof.note_commitment) : p \in Positions}
    ELSE Elements

\* The witness of an output of a note of value 10 to the address
\* (g_d, pk_d) of the incoming viewing key ivk, with ephemeral secret esk.
MadeOutputProof(ivk, g_d, esk) ==
    [g_d |-> g_d,
     pk_d |-> DiversifiedPublic(ivk, g_d),
     value_amount |-> 10,
     value_asset_id |-> 1,
     v_blinding |-> 1,
     note_blinding |-> 1,
     esk |-> esk]

OutputPublicInputs(proof) ==
    [value_commitment |-> Negated(ValueCommit(ValueOf(proof), proof.v_blinding)),
     note_commitment |-> NoteCommitmentNew(proof.note_blinding, ValueOf(proof),
                                           proof.g_d, proof.pk_d),
     epk |-> DiversifiedPublic(proof.esk, proof.g_d)]

OutputProofFields ==
    {"g_d", "pk_d", "value_amount", "value_asset_id", "v_blinding", "note_blinding",
     "esk"}

\* The values a public input of an output may be replaced with.
OutputInputValues(proof, input) ==
    IF input = "value_commitment"
    THEN {ValueCommit(ValueOf(proof), b) : b \in Blindings}
         \cup {Negated(ValueCommit(ValueOf(proof), b)) : b \in Blindings}
    ELSE IF input = "note_commitment"
    THEN {NoteCommitmentNew(b, ValueOf(proof), proof.g_d, proof.pk_d) :
             b \in Blindings}
    ELSE Elements

\* What a call of verify leaves: only last changes.
VerifyCall(call, result) ==
    /\ Running
    /\ calls' = calls + 1
    /\ last' = call @@ [result |-> result]
    /\ UNCHANGED <<validator_set, validator_definitions, new_validators,
                   updated_validators, slashed_validators, delegation_changes,
                   epoch, next_base_rate, next_rates, tm_validator_updates,
                   reward_notes, supply_updates, chain_params>>

SpendProofVerifyCall(self, public) ==
    VerifyCall([op |-> "spend_proof_verify", self |-> self, public |-> public],
               SpendProofVerify(self, public.anchor, public.value_commitment,
                                public.nullifier, public.rk))

OutputProofVerifyCall(self, public) ==
    VerifyCall([op |-> "output_proof_verify", self |-> self, public |-> public],
               OutputProofVerify(self, public.value_commitment,
                                 public.note_commitment, public.epk))

NextProof ==
    \/ /\ calls < MaxRateCalls
       /\ \E ak \in 0..1, g_d \in 0..1, position \in {1}, f1, f2 \in SpendProofFields :
             LET made == MadeSpendProof(ak, 1, g_d, position) IN
             \E v1 \in FieldValues(made, f1), v2 \in FieldValues(made, f2),
                input \in DOMAIN SpendPublicInputs(made) :
                \E w \in SpendInputValues(made, input) :
                   SpendProofVerifyCall(
                      [[made EXCEPT ![f1] = v1] EXCEPT ![f2] = v2],
                      [SpendPublicInputs(made) EXCEPT ![input] = w])
    \/ /\ calls < MaxRateCalls
       /\ \E g_d \in SomeElements, esk \in Blindings, f1, f2 \in OutputProofFields :
             LET made == MadeOutputProof(1, g_d, esk) IN
             \E v1 \in FieldValues(made, f1), v2 \in FieldValues(made, f2),
                input \in DOMAIN OutputPublicInputs(made) :
                \E w \in OutputInputValues(made, input) :
                   OutputProofVerifyCall(
                      [[made EXCEPT ![f1] = v1] EXCEPT ![f2] = v2],
                      [OutputPublicInputs(made) EXCEPT ![input] = w])

SpecProof == InitWide /\ [][NextProof]_vars

(***************************************************************************)
(* The asset registry.  A denomination string is the sequence of its       *)
(* characters.  A pattern of the registry is anchored at both ends and is  *)
(* either a literal, or a literal followed by the named capture `data`:    *)
(* penumbravalid1 and then one or more characters of [a-zA-HJ-NP-Z0-9].    *)
(***************************************************************************)

MaxSuffix == 2

Pattern(literal, data) == [literal |-> literal, data |-> data]

\* The prefix of the capture (?P<data>penumbravalid1[a-zA-HJ-NP-Z0-9]+).
DataPrefix == <<"p", "e", "n", "u", "m", "b", "r", "a", "v", "a", "l", "i", "d", "1">>

\* The character class [a-zA-HJ-NP-Z0-9].
DataChars ==
    {"a", "b", "c", "d", "e", "f", "g", "h", "i", "j", "k", "l", "m", "n", "o", "p", "q", "r", "s", "t", "u", "v", "w", "x", "y", "z",
     "A", "B", "C", "D", "E", "F", "G", "H", "J", "K", "L", "M", "N", "P", "Q", "R", "S", "T", "U", "V", "W", "X", "Y", "Z",
     "0", "1", "2", "3", "4", "5", "6", "7", "8", "9"}

\* Regex::captures: whether the pattern matches the whole of raw, and the
\* text of the capture `data` ("" when the pattern has none).
Captures(regex, raw) ==
    IF ~ regex.data
    THEN [matched |-> raw = regex.literal, data |-> <<>>]
    ELSE LET n == Len(regex.literal)
             m == n + Len(DataPrefix)
         IN  [matched |-> /\ Len(raw) > m
                          /\ SubSeq(raw, 1, n) = regex.literal
                          /\ SubSeq(raw, n + 1, m) = DataPrefix
                          /\ \A i \in (m + 1)..Len(raw) : raw[i] \in DataChars,
              data |-> SubSeq(raw, n + 1, Len(raw))]

\* The asset id of a base denomination: a fixed hash of its string.
AssetId(base_denom) == [hash_of |-> base_denom]

UnitData(exponent, denom) == [exponent |-> exponent, denom |-> denom]

\* denom::Inner::new: the base string, its display units and its asset id.
InnerNew(base_denom, units) ==
    [id |-> AssetId(base_denom), base_denom |-> base_denom, units |-> units]

\* Denom::base_unit.
BaseUnit(inner) == [inner |-> inner, unit_index |-> 0]

\* The patterns of REGISTRY, by family.
base_regexes ==
    <<Pattern(<<"u", "p", "e", "n", "u", "m", "b", "r", "a">>, FALSE),
      Pattern(<<"u", "d", "e", "l", "e", "g", "a", "t", "i", "o", "n", "_">>, TRUE)>>

display_regexes ==
    <<<<Pattern(<<"p", "e", "n", "u", "m", "b", "r", "a">>, FALSE),
        Pattern(<<"m", "p", "e", "n", "u", "m", "b", "r", "a">>, FALSE)>>,
      <<Pattern(<<"d", "e", "l", "e", "g", "a", "t", "i", "o", "n", "_">>, TRUE),
        Pattern(<<"m", "d", "e", "l", "e", "g", "a", "t", "i", "o", "n", "_">>, TRUE)>>>>

\* The display patterns in the order RegexSet holds them, and the family of
\* each.
display_set == display_regexes[1] \o display_regexes[2]

display_to_base == <<1, 1, 2, 2>>

\* RegexSet::matches(raw).iter(): the indices of the patterns that match.
SetMatches(set, raw) == {i \in 1..Len(set) : Captures(set[i], raw).matched}

\* The assertion of a family's constructor fails.
ConstructorPanics(base_index, data) ==
    IF base_index = 1 THEN data # <<>> ELSE data = <<>>

\* constructors[base_index](data).
Constructors(base_index, data) ==
    IF base_index = 1
    THEN InnerNew(<<"u", "p", "e", "n", "u", "m", "b", "r", "a">>,
                  <<UnitData(6, <<"p", "e", "n", "u", "m", "b", "r", "a">>),
                    UnitData(3, <<"m", "p", "e", "n", "u", "m", "b", "r", "a">>)>>)
    ELSE InnerNew(<<"u", "d", "e", "l", "e", "g", "a", "t", "i", "o", "n", "_">> \o data,
                  <<UnitData(6, <<"d", "e", "l", "e", "g", "a", "t", "i", "o", "n", "_">> \o data),
                    UnitData(3, <<"m", "d", "e", "l", "e", "g", "a", "t", "i", "o", "n", "_">> \o data)>>)

\* Registry::parse_denom, were display denominations parsed as opaque base
\* denominations.
ParseDenomDisplayOpaque(raw_denom) ==
    IF SetMatches(base_regexes, raw_denom) # {}
    THEN LET base_index == Min(SetMatches(base_regexes, raw_denom))
             data == Captures(base_regexes[base_index], raw_denom).data
         IN  IF ConstructorPanics(base_index, data) THEN Panicked
             ELSE Returned(Constructors(base_index, data))
    ELSE Returned(InnerNew(raw_denom, <<>>))

\* Registry::parse_denom: Option<Denom>, or a panic.
ParseDenom(raw_denom) ==
    IF SetMatches(base_regexes, raw_denom) # {}
    THEN LET base_index == Min(SetMatches(base_regexes, raw_denom))
             data == Captures(base_regexes[base_index], raw_denom).data
         IN  IF ConstructorPanics(base_index, data) THEN Panicked
             ELSE Returned(Constructors(base_index, data))
    ELSE IF SetMatches(display_set, raw_denom) # {}
    THEN Returned(None)
    ELSE Returned(InnerNew(raw_denom, <<>>))

\* The unit indices (from 0) of the family's display patterns that match.
UnitMatches(base_index, raw_unit) ==
    {i - 1 : i \in SetMatches(display_regexes[base_index], raw_unit)}

\* Registry::parse_unit, were the unit index the index in the display set.
ParseUnitSetIndex(raw_unit) ==
    IF SetMatches(display_set, raw_unit) # {}
    THEN LET display_index == Min(SetMatches(display_set, raw_unit))
             base_index == display_to_base[display_index]
         IN  IF UnitMatches(base_index, raw_unit) = {} THEN Panicked
             ELSE LET unit_index == Min(UnitMatches(base_index, raw_unit))
                      data == Captures(display_regexes[base_index][unit_index + 1],
                                       raw_unit).data
                  IN  IF ConstructorPanics(base_index, data) THEN Panicked
                      ELSE Returned([inner |-> Constructors(base_index, data),
                                     unit_index |-> display_index - 1])
    ELSE LET denom == ParseDenom(raw_unit)
         IN  IF denom.panic \/ denom.value = None THEN Panicked
             ELSE Returned(BaseUnit(denom.value))

\* Registry::parse_unit: a Unit, or a panic.
ParseUnit(raw_unit) ==
    IF SetMatches(display_set, raw_unit) # {}
    THEN LET display_index == Min(SetMatches(display_set, raw_unit))
             base_index == display_to_base[display_index]
         IN  IF UnitMatches(base_index, raw_unit) = {} THEN Panicked
             ELSE LET unit_index == Min(UnitMatches(base_index, raw_unit))
                      data == Captures(display_regexes[base_index][unit_index + 1],
                                       raw_unit).data
                  IN  IF ConstructorPanics(base_index, data) THEN Panicked
                      ELSE Returned([inner |-> Constructors(base_index, data),
                                     unit_index |-> unit_index])
    ELSE LET denom == ParseDenom(raw_unit)
         IN  IF denom.panic \/ denom.value = None THEN Panicked
             ELSE Returned(BaseUnit(denom.value))

\* Allocation::note: the value of the note, or the error for a denomination
\* that parse_denom does not accept.
AllocationNote(amount, denom) ==
    LET parsed == ParseDenom(denom)
    IN  IF parsed.panic THEN Panicked
        ELSE IF parsed.value = None THEN Returned("invalid denomination")
        ELSE Returned([amount |-> amount, asset_id |-> parsed.value.id])

\* The denomination strings the calls are given: a stem of the registry's
\* literals, with a character before it and up to MaxSuffix characters after.
RECURSIVE Words(_, _)
Words(chars, n) ==
    IF n = 0 THEN {<<>>}
    ELSE LET shorter == Words(chars, n - 1)
         IN  shorter \cup {Append(w, c) : w \in shorter, c \in chars}

RawPrefixes == {<<>>, <<"u">>, <<"m">>, <<"x">>}

RawStems ==
    {<<>>, <<"p", "e", "n", "u", "m", "b", "r", "a">>, <<"d", "e", "l", "e", "g", "a", "t", "i", "o", "n", "_">>,
     <<"d", "e", "l", "e", "g", "a", "t", "i", "o", "n", "_">> \o DataPrefix}

RawSuffixes == Words({"a", "Z", "I", "_"}, MaxSuffix)

RawStrings == {p \o s \o t : p \in RawPrefixes, s \in RawStems, t \in RawSuffixes}

ParseDenomCall(raw_denom) ==
    /\ RateCall([op |-> "parse_denom", raw |-> raw_denom], ParseDenom(raw_denom))
    /\ UNCHANGED <<validator_set, validator_definitions, new_validators,
                   updated_validators, slashed_validators, delegation_changes,
                   epoch, next_base_rate, next_rates, tm_validator_updates,
                   reward_notes, supply_updates, chain_params>>

ParseUnitCall(raw_unit) ==
    /\ RateCall([op |-> "parse_unit", raw |-> raw_unit], ParseUnit(raw_unit))
    /\ UNCHANGED <<validator_set, validator_definitions, new_validators,
                   updated_validators, slashed_validators, delegation_changes,
                   epoch, next_base_rate, next_rates, tm_validator_updates,
                   reward_notes, supply_updates, chain_params>>

AllocationNoteCall(amount, denom) ==
    /\ RateCall([op |-> "allocation_note", raw |-> denom, amount |-> amount],
                AllocationNote(amount, denom))
    /\ UNCHANGED <<validator_set, validator_definitions, new_validators,
                   updated_validators, slashed_validators, delegation_changes,
                   epoch, next_base_rate, next_rates, tm_validator_updates,
                   reward_notes, supply_updates, chain_params>>

NextRegistry ==
    \/ /\ calls < MaxRateCalls
       /\ \E raw \in RawStrings : ParseDenomCall(raw)
    \/ /\ calls < MaxRateCalls
       /\ \E raw \in RawStrings : ParseUnitCall(raw)
    \/ /\ calls < MaxRateCalls
       /\ \E raw \in RawStrings, amount \in {1} : AllocationNoteCall(amount, raw)

SpecRegistry == InitWide /\ [][NextRegistry]_vars

(***************************************************************************)
(* Properties.                                                             *)
(***************************************************************************)
StateOf(vset, k) == vset[k].status.state
PowerOf(vset, k) == vset[k].status.voting_power

\* The validators of vset with strictly more voting power than k.
HigherPowered(vset, k) == {j \in DOMAIN vset : PowerOf(vset, j) > PowerOf(vset, k)}

TransitionOps ==
    {"activate_validator", "unbond_validator", "deactivate_validator",
     "slash_validator"}

\* C1: after process_epoch_transitions returns Ok, a validator that has at
\* least active_validator_limit validators of strictly higher voting power
\* (it is not among the top N) is not Active.
C1_OutsideTopNotActive ==
    [][(last'.op = "process_epoch_transitions" /\ last'.result = "ok")
        => \A k \in DOMAIN validator_set :
              Cardinality(HigherPowered(validator_set, k))
                    >= last'.active_validator_limit
                 => StateOf(validator_set', k) # Active]_vars

\* C2: when end_epoch returns Ok over more than N validators that were all
\* Inactive and whose computed voting powers are pairwise distinct and
\* positive, the Active validators are exactly the N of highest voting
\* power and the others are still Inactive.
C2_HighestBecomeActive ==
    [][(/\ last'.op = "end_epoch" /\ last'.result = "ok"
        /\ Cardinality(DOMAIN validator_set) > chain_params.active_validator_limit
        /\ \A k \in DOMAIN validator_set : StateOf(validator_set, k) = Inactive
        /\ \A k \in DOMAIN validator_set : PowerOf(validator_set', k) > 0
        /\ \A j, k \in DOMAIN validator_set :
              j # k => PowerOf(validator_set', j) # PowerOf(validator_set', k))
        => \A k \in DOMAIN validator_set :
              StateOf(validator_set', k) =
                 IF Cardinality(HigherPowered(validator_set', k))
                        < chain_params.active_validator_limit
                 THEN Active ELSE Inactive]_vars

\* C3: the number of Active validators is at most active_validator_limit
\* in every state reached through add_validator_definition,
\* update_delegations, end_block, end_epoch, commit_block and the transition
\* operations: it is so at construction and none of these calls, made in a
\* state where it is so, leaves a state where it is not.
C3_ActiveWithinLimit ==
    [][(/\ last'.op \in {"add_validator_definition", "update_delegations",
                         "end_block", "end_epoch", "commit_block",
                         "activate_validator", "unbond_validator",
                         "deactivate_validator", "slash_validator"}
        /\ NumActive(validator_set) <= chain_params.active_validator_limit)
          => NumActive(validator_set') <= chain_params'.active_validator_limit]_vars

\* The edges of the validator state machine, by the names of the states.
TransitionEdges ==
    {<<"Inactive", "Active">>, <<"Unbonding", "Active">>, <<"Active", "Unbonding">>,
     <<"Unbonding", "Inactive">>, <<"Active", "Slashed">>, <<"Unbonding", "Slashed">>}

\* The states from which each operation succeeds, and the state it leads to.
PreconditionOf(op) ==
    CASE op = "activate_validator" -> {"Inactive", "Unbonding"}
      [] op = "unbond_validator" -> {"Active"}
      [] op = "deactivate_validator" -> {"Unbonding"}
      [] op = "slash_validator" -> {"Active", "Unbonding"}

TargetOf(op) ==
    CASE op = "activate_validator" -> "Active"
      [] op = "unbond_validator" -> "Unbonding"
      [] op = "deactivate_validator" -> "Inactive"
      [] op = "slash_validator" -> "Slashed"

\* C4: a transition operation changes the state of a validator only along
\* one of the six edges; it returns Ok exactly when the validator carrying
\* the consensus key is in a state of the operation's precondition, and then
\* that validator is in the operation's target state; otherwise it returns
\* an error and no state changes.
C4_TransitionEdges ==
    [][last'.op \in TransitionOps
        => LET ik == GetValidatorByConsensusKey(validator_set, last'.ck)
               met == /\ ik \in DOMAIN validator_set
                      /\ StateOf(validator_set, ik).name \in PreconditionOf(last'.op)
           IN  /\ DOMAIN validator_set' = DOMAIN validator_set
               /\ (last'.result = "ok") <=> met
               /\ last'.result \in {"ok", "err"}
               /\ met => StateOf(validator_set', ik).name = TargetOf(last'.op)
               /\ \A k \in DOMAIN validator_set :
                     StateOf(validator_set', k) # StateOf(validator_set, k)
                        => /\ met /\ k = ik
                           /\ <<StateOf(validator_set, k).name,
                                StateOf(validator_set', k).name>> \in TransitionEdges]_vars

\* A transition was made along each kind of edge that starts in Unbonding.
C4_Witness ==
    /\ last.op \in {"activate_validator", "deactivate_validator", "slash_validator"}
    /\ last.result = "ok"
    /\ last.from.name = "Unbonding"
    /\ StateOf(validator_set, last.ik).name = TargetOf(last.op)

\* C5: when a transition operation returns an error, every field of the
\* ValidatorSet is as it was before the call, slashed_validators included.
C5_ErrorChangesNothing ==
    [][(last'.op \in TransitionOps /\ last'.result = "err")
        => UNCHANGED <<validator_set, validator_definitions, new_validators,
                       updated_validators, slashed_validators, delegation_changes,
                       epoch, next_base_rate, next_rates, tm_validator_updates,
                       reward_notes, supply_updates>>]_vars

\* C6: no call removes an identity key from validator_set, and a validator
\* that is Slashed is Slashed after every call of the block and epoch
\* handlers and of the transition operations (add_validator, which stores
\* the ValidatorInfo it is given, is not one of them).
C6_SlashedIsTerminal ==
    [][\A k \in DOMAIN validator_set :
          /\ k \in DOMAIN validator_set'
          /\ (last'.op # "add_validator" /\ StateOf(validator_set, k) = Slashed)
                => StateOf(validator_set', k) = Slashed]_vars

\* A Slashed validator whose identity just received a new definition in
\* end_block.
C6_Witness ==
    /\ last.op = "end_block"
    /\ \E k \in last.existing :
          /\ StateOf(validator_set, k) = Slashed
          /\ validator_set[k].validator = last.resolved[k].validator

\* Lexicographic order of two byte strings of the same length.
LexLess(a, b) ==
    \E i \in 1..Len(a) : a[i] < b[i] /\ \A j \in 1..(i - 1) : a[j] = b[j]

\* d has the highest sequence number of defs and, among the definitions of
\* that sequence number, no signature is smaller than its own.
IsChosen(d, defs) ==
    \A e \in defs :
        \/ e.validator.sequence_number < d.validator.sequence_number
        \/ /\ e.validator.sequence_number = d.validator.sequence_number
           /\ ~ LexLess(e.auth_sig, d.auth_sig)

\* C7: for every identity key with pending definitions, the configuration
\* end_block leaves in validator_set is the one of the pending definition
\* with the maximum sequence number and, among those, the lexicographically
\* smallest auth_sig.
C7_HighestSeqSmallestSig ==
    [][last'.op = "end_block"
        => \A ik \in DOMAIN validator_definitions :
              \E d \in Range(validator_definitions[ik]) :
                 /\ IsChosen(d, Range(validator_definitions[ik]))
                 /\ last'.resolved[ik] = d
                 /\ validator_set'[ik].validator = d.validator]_vars

\* end_block resolved three definitions of one identity: the one applied
\* arrived after a definition of the same sequence number with a larger
\* signature, and a definition of a lower sequence number lost.
C7_Witness ==
    /\ last.op = "end_block"
    /\ \E ik \in DOMAIN validator_definitions :
          LET defs == validator_definitions[ik] IN
          /\ Len(defs) = 3
          /\ defs[1].validator.sequence_number = defs[2].validator.sequence_number
          /\ defs[3].validator.sequence_number < defs[2].validator.sequence_number
          /\ LexLess(defs[2].auth_sig, defs[1].auth_sig)
          /\ defs[1].validator # defs[2].validator
          /\ defs[3].validator # defs[2].validator
          /\ validator_set[ik].validator = defs[2].validator

\* The reorderings of a sequence.
PermutationsOf(seq) ==
    {[i \in 1..Len(seq) |-> seq[f[i]]] :
        f \in {g \in [1..Len(seq) -> 1..Len(seq)] :
                 \A a, b \in 1..Len(seq) : a # b => g[a] # g[b]}}

\* The pending definitions in every order of arrival that gives the same
\* multiset for each identity key.
ArrivalOrders(defs) ==
    {m \in [DOMAIN defs -> UNION {PermutationsOf(defs[ik]) : ik \in DOMAIN defs}] :
        \A ik \in DOMAIN defs : m[ik] \in PermutationsOf(defs[ik])}

\* C8: end_block leaves the same validator_set, new_validators and
\* updated_validators whatever the order in which the pending definitions
\* arrived.
C8_ArrivalOrderIrrelevant ==
    [][last'.op = "end_block"
        => \A m \in ArrivalOrders(validator_definitions) :
              LET out == EndBlockOn(m, validator_set, new_validators,
                                    updated_validators, epoch')
              IN  /\ out.validator_set = validator_set'
                  /\ out.new_validators = new_validators'
                  /\ out.updated_validators = updated_validators']_vars

\* end_block resolved two different definitions of one identity and one
\* sequence number, and applied the one that arrived last.
C8_Witness ==
    /\ last.op = "end_block"
    /\ \E ik \in DOMAIN validator_definitions :
          LET defs == validator_definitions[ik] IN
          /\ Len(defs) = 2
          /\ defs[1].validator.sequence_number = defs[2].validator.sequence_number
          /\ defs[1].validator # defs[2].validator
          /\ validator_set[ik].validator = defs[2].validator

\* The number of entries of a list of ValidatorInfo for the identity ik.
EntriesFor(list, ik) ==
    Cardinality({i \in 1..Len(list) : list[i].validator.identity_key = ik})

\* C9: for an identity with pending definitions that is already in
\* validator_set, end_block keeps status and rate_data, replaces the
\* configuration by the resolved definition's, appends the validator once to
\* updated_validators and does not append it to new_validators.
C9_UpdateKeepsStatusAndRates ==
    [][last'.op = "end_block"
        => \A ik \in DOMAIN validator_definitions \cap DOMAIN validator_set :
              /\ validator_set'[ik].status = validator_set[ik].status
              /\ validator_set'[ik].rate_data = validator_set[ik].rate_data
              /\ validator_set'[ik].validator = last'.resolved[ik].validator
              /\ EntriesFor(updated_validators', ik)
                    = EntriesFor(updated_validators, ik) + 1
              /\ \E i \in 1..Len(updated_validators') :
                    /\ i > Len(updated_validators)
                    /\ updated_validators'[i] = validator_set'[ik]
              /\ EntriesFor(new_validators', ik) = EntriesFor(new_validators, ik)]_vars

\* end_block applied a definition with another consensus key to an existing
\* validator that is not Inactive.
C9_Witness ==
    /\ last.op = "end_block"
    /\ \E ik \in last.existing :
          /\ StateOf(validator_set, ik) # Inactive
          /\ validator_set[ik].rate_data.validator_exchange_rate = FP_SCALE
          /\ validator_set[ik].validator.consensus_key
                # GenesisValidatorInfo(ik, Inactive).validator.consensus_key
          /\ EntriesFor(updated_validators, ik) = 1
          /\ EntriesFor(new_validators, ik) = 0

\* C10: for an identity with pending definitions that is not in
\* validator_set, end_block inserts a validator that is Inactive, with
\* voting power 0, reward rate 0, exchange rate 1 and the epoch index of the
\* epoch passed, appends it once to new_validators and does not append it to
\* updated_validators.
C10_NewValidatorDefaults ==
    [][last'.op = "end_block"
        => \A ik \in DOMAIN validator_definitions \ DOMAIN validator_set :
              /\ ik \in DOMAIN validator_set'
              /\ validator_set'[ik].validator = last'.resolved[ik].validator
              /\ validator_set'[ik].status =
                    [identity_key |-> ik, voting_power |-> 0, state |-> Inactive]
              /\ validator_set'[ik].rate_data =
                    [identity_key |-> ik, epoch_index |-> last'.epoch.index,
                     validator_reward_rate |-> 0, validator_exchange_rate |-> 1]
              /\ epoch' = last'.epoch
              /\ EntriesFor(new_validators', ik) = EntriesFor(new_validators, ik) + 1
              /\ \E i \in 1..Len(new_validators') :
                    /\ i > Len(new_validators)
                    /\ new_validators'[i] = validator_set'[ik]
              /\ EntriesFor(updated_validators', ik)
                    = EntriesFor(updated_validators, ik)]_vars

\* end_block, called with the epoch after the current one, inserted a new
\* validator.
C10_Witness ==
    /\ last.op = "end_block"
    /\ last.epoch.index > 0
    /\ \E ik \in DOMAIN last.resolved \ last.existing :
          /\ validator_set[ik].rate_data.epoch_index = last.epoch.index
          /\ validator_set[ik].rate_data.validator_exchange_rate = 1
          /\ StateOf(validator_set, ik) = Inactive
          /\ EntriesFor(new_validators, ik) = 1
          /\ EntriesFor(updated_validators, ik) = 0

\* The i-th identity key of vset in ascending order.
KeyAt(vset, i) ==
    CHOOSE k \in DOMAIN vset : Cardinality({j \in DOMAIN vset : j < k}) = i - 1

\* C11: after end_block returns Ok, tm_validator_updates has one entry per
\* validator of validator_set, in identity-key order, with the validator's
\* consensus key and, as power, its voting power when it is Active and 0
\* otherwise.
C11_TmUpdatesCoverValidatorSet ==
    [][(last'.op = "end_block" /\ last'.result = "ok")
        => /\ Len(tm_validator_updates') = Cardinality(DOMAIN validator_set')
           /\ \A i \in 1..Len(tm_validator_updates') :
                 LET v == validator_set'[KeyAt(validator_set', i)] IN
                 /\ tm_validator_updates'[i].pub_key = v.validator.consensus_key
                 /\ tm_validator_updates'[i].power =
                       IF v.status.state = Active THEN v.status.voting_power
                       ELSE 0]_vars

\* end_block added a validator in a block where another validator is Active
\* with a positive voting power: one entry reports that power, one reports 0.
C11_Witness ==
    /\ last.op = "end_block"
    /\ DOMAIN last.resolved \ last.existing # {}
    /\ Len(tm_validator_updates) = 2
    /\ \E i, j \in 1..2 :
          /\ tm_validator_updates[i].power > 0
          /\ tm_validator_updates[j].power = 0
          /\ StateOf(validator_set, KeyAt(validator_set, i)) = Active

\* Each entry of tm_validator_updates with a positive power is the one of a
\* validator that is Active in vset.
OnlyActiveReportPower(updates, vset) ==
    \A i \in 1..Len(updates) :
        updates[i].power > 0
           => /\ i <= Cardinality(DOMAIN vset)
              /\ StateOf(vset, KeyAt(vset, i)) = Active

\* C12: between the return of end_block and the following commit_block each
\* entry of tm_validator_updates with a positive power is the one of a
\* validator that is Active in validator_set: it is so when end_block returns
\* Ok, and a slash_validator, unbond_validator or end_epoch call made in a
\* state where it is so leaves a state where it is so.
C12_OnlyActiveReportPower ==
    [][/\ (last'.op = "end_block" /\ last'.result = "ok")
            => OnlyActiveReportPower(tm_validator_updates', validator_set')
       /\ (/\ last'.op \in {"slash_validator", "unbond_validator", "end_epoch"}
           /\ OnlyActiveReportPower(tm_validator_updates, validator_set))
            => OnlyActiveReportPower(tm_validator_updates', validator_set')]_vars

\* C13: after every commit_block, whether or not the epoch index changes,
\* new_validators, updated_validators, slashed_validators,
\* delegation_changes, tm_validator_updates, reward_notes, supply_updates
\* and validator_definitions are empty.
C13_CommitClearsBlockAccumulators ==
    [][last'.op = "commit_block"
        => /\ new_validators' = <<>>
           /\ updated_validators' = <<>>
           /\ slashed_validators' = <<>>
           /\ delegation_changes' = EmptyMap
           /\ tm_validator_updates' = <<>>
           /\ reward_notes' = <<>>
           /\ supply_updates' = EmptyMap
           /\ validator_definitions' = EmptyMap]_vars

\* C14: commit_block(new_epoch) keeps next_base_rate, next_rates and the
\* epoch when new_epoch has the index of the current epoch; otherwise it
\* sets both rates to None and the epoch to new_epoch.  It never changes
\* validator_set.
C14_CommitEpochScopedFrame ==
    [][last'.op = "commit_block"
        => /\ validator_set' = validator_set
           /\ IF last'.new_epoch.index = epoch.index
              THEN /\ next_base_rate' = next_base_rate
                   /\ next_rates' = next_rates
                   /\ epoch' = epoch
              ELSE /\ next_base_rate' = None
                   /\ next_rates' = None
                   /\ epoch' = last'.new_epoch]_vars

\* commit_block was called inside the epoch after an end_epoch: the rates
\* end_epoch computed are still there.
C14_Witness ==
    /\ last.op = "commit_block"
    /\ last.new_epoch.index = epoch.index
    /\ next_base_rate # None
    /\ Len(next_rates) > 0

\* C19: process_epoch_transitions(limit, current_epoch, unbonding_epochs)
\* leaves Inactive every validator that was Unbonding with an unbonding
\* epoch at or before current_epoch.index when the call started, and moves
\* no validator whose unbonding epoch is after current_epoch.index to
\* Inactive.
C19_ExpiredUnbondingDeactivated ==
    [][last'.op = "process_epoch_transitions"
        => \A k \in DOMAIN validator_set :
              StateOf(validator_set, k).name = "Unbonding"
                 => IF StateOf(validator_set, k).unbonding_epoch
                          <= last'.current_epoch.index
                    THEN StateOf(validator_set', k) = Inactive
                    ELSE StateOf(validator_set', k) # Inactive]_vars

\* C20: process_epoch_transitions, called directly or at the end of
\* end_epoch, moves no Inactive or Unbonding validator with voting power 0
\* to Active.
C20_EmptyPoolNeverActivated ==
    [][last'.op \in {"process_epoch_transitions", "end_epoch"}
        => \A k \in DOMAIN validator_set :
              (/\ StateOf(validator_set, k).name \in {"Inactive", "Unbonding"}
               /\ PowerOf(validator_set', k) = 0)
                 => StateOf(validator_set', k) # Active]_vars

\* C15: RateData::next called with a state that is Inactive, Unbonding or
\* Slashed returns the identity key, the reward rate and the exchange rate
\* of the rate data it was called on, with epoch_index one higher, whatever
\* the base rate and the funding streams are, also when the funding streams
\* sum above 10000 basis points and also after the validator was slashed.
C15_NonActiveRatesConstant ==
    [][(last'.op = "rate_data_next"
           /\ last'.state.name \in {"Inactive", "Unbonding", "Slashed"})
        => /\ last'.result = "ok"
           /\ last'.value = [last'.self EXCEPT !.epoch_index = @ + 1]]_vars

\* RateData::next was called on a validator that had just been slashed,
\* with nonzero rates, a base rate that pays a reward and funding streams
\* summing above 10000 basis points.
C15_Witness ==
    /\ last.op = "rate_data_next"
    /\ last.state = Slashed
    /\ slashed_validators # <<>>
    /\ last.self.validator_reward_rate > 0
    /\ last.self.validator_reward_rate \notin RewardRates
    /\ last.self.validator_exchange_rate # FP_SCALE
    /\ last.base_rate_data.base_reward_rate > 0
    /\ CommissionBps(last.funding_streams) > BPS_SCALE

\* floor(a * b / c) in unbounded arithmetic, as a limb sequence.
ExactMulDiv(a, b, c) == BigDiv(BigMul(BigOf(a), BigOf(b)), BigOf(c))

\* C16: for an Active validator whose funding streams sum to commission_bps
\* <= 10000, RateData::next returns the reward rate
\* floor((1e8 - commission_bps * 1e4) * base_reward_rate / 1e8), the exchange
\* rate floor(prev_exchange_rate * (prev_reward_rate + 1e8) / 1e8), computed
\* from the rates of the rate data it was called on, the same identity key
\* and epoch_index one higher.  The right-hand sides are computed in
\* unbounded arithmetic.
C16_ActiveRatesFormula ==
    [][(/\ last'.op = "rate_data_next"
        /\ last'.state = Active
        /\ CommissionBps(last'.funding_streams) <= BPS_SCALE)
        => /\ last'.result = "ok"
           /\ BigOf(last'.value.validator_reward_rate) =
                 ExactMulDiv(FP_SCALE - CommissionBps(last'.funding_streams) * BPS_SCALE,
                             last'.base_rate_data.base_reward_rate, FP_SCALE)
           /\ BigOf(last'.value.validator_exchange_rate) =
                 ExactMulDiv(last'.self.validator_exchange_rate,
                             last'.self.validator_reward_rate + FP_SCALE, FP_SCALE)
           /\ last'.value.epoch_index = last'.self.epoch_index + 1
           /\ last'.value.identity_key = last'.self.identity_key]_vars

\* RateData::next was called for an Active validator with a commission
\* strictly between 0 and 100%, a base rate that pays a reward, a new reward
\* rate other than the previous one, and a product for the exchange rate
\* that the division by 1e8 truncates.
C16_Witness ==
    /\ last.op = "rate_data_next"
    /\ last.result = "ok"
    /\ last.state = Active
    /\ CommissionBps(last.funding_streams) \in 1..(BPS_SCALE - 1)
    /\ last.base_rate_data.base_reward_rate > 0
    /\ last.value.validator_reward_rate \notin {0, last.self.validator_reward_rate}
    /\ MulDivRem(last.self.validator_exchange_rate,
                 last.self.validator_reward_rate + FP_SCALE, FP_SCALE)[2] # 0
    /\ last.value.validator_exchange_rate > last.self.validator_exchange_rate

\* C18: slash_validator(ck, penalty) on a validator that is Active or
\* Unbonding returns Ok and leaves it Slashed, with the reward rate
\* old - floor(old * penalty / 1e8), or 0 when the penalty part exceeds old
\* (never more than old), with the same exchange rate, epoch index and
\* voting power, and with its identity key appended once to
\* slashed_validators.  The penalty part is computed in unbounded
\* arithmetic.
C18_SlashActiveOrUnbonding ==
    [][(last'.op = "slash_validator" /\ last'.from # None
           /\ last'.from.name \in {"Active", "Unbonding"})
        => LET ik == last'.ik
               old == validator_set[ik].rate_data
               new == validator_set'[ik].rate_data
               part == ExactMulDiv(old.validator_reward_rate, last'.penalty, FP_SCALE)
           IN  /\ last'.result = "ok"
               /\ StateOf(validator_set', ik) = Slashed
               /\ BigOf(new.validator_reward_rate) =
                     IF BigLess(BigOf(old.validator_reward_rate), part) THEN <<>>
                     ELSE BigSub(BigOf(old.validator_reward_rate), part)
               /\ new.validator_reward_rate <= old.validator_reward_rate
               /\ new.validator_exchange_rate = old.validator_exchange_rate
               /\ new.epoch_index = old.epoch_index
               /\ new.identity_key = old.identity_key
               /\ PowerOf(validator_set', ik) = PowerOf(validator_set, ik)
               /\ validator_set'[ik].validator = validator_set[ik].validator
               /\ slashed_validators' = Append(slashed_validators, ik)]_vars

\* An Unbonding validator with voting power and a reward rate was slashed
\* with a penalty that takes a part of the reward rate and leaves the rest.
C18_Witness ==
    /\ last.op = "slash_validator"
    /\ last.result = "ok"
    /\ last.from.name = "Unbonding"
    /\ last.penalty \in 1..(FP_SCALE - 1)
    /\ PowerOf(validator_set, last.ik) > 0
    /\ validator_set[last.ik].rate_data.validator_reward_rate > 0
    /\ validator_set[last.ik].rate_data.validator_reward_rate \notin RewardRates
    /\ validator_set[last.ik].rate_data.validator_exchange_rate # FP_SCALE
    /\ slashed_validators = <<last.ik>>

\* floor(a * b / c) of limb sequences, in unbounded arithmetic.
ExactRate(a, b, c) == BigDiv(BigMul(a, b), c)

\* C17: with u64 arguments of any size, RateData::next, BaseRateData::next,
\* RateData::slash, delegation_amount, unbonded_amount and voting_power
\* return the truncated value of their formula in unbounded arithmetic
\* whenever that value fits in u64, and panic only when it does not (a
\* divisor 0, for which the formula has no value, is left aside).
C17_RatesAsIfUnbounded ==
    [][LET call == last'
           one == BigOf(FP_SCALE)
           \* the values of the formulas of the call, in unbounded arithmetic
           exact ==
             IF call.op = "u64_rate_data_next"
             THEN <<ExactRate(BigOf(FP_SCALE - call.commission_rate_bps * BPS_SCALE),
                              call.base_rate_data.base_reward_rate, one),
                    ExactRate(call.self.validator_exchange_rate,
                              BigAdd(call.self.validator_reward_rate, one), one)>>
             ELSE IF call.op = "u64_base_rate_data_next"
             THEN <<ExactRate(call.self.base_exchange_rate,
                              BigAdd(call.base_reward_rate, one), one)>>
             ELSE IF call.op = "u64_slash"
             THEN LET part == ExactRate(call.self.validator_reward_rate,
                                        call.slashing_penalty, one)
                  IN  <<IF BigLess(call.self.validator_reward_rate, part) THEN <<>>
                        ELSE BigSub(call.self.validator_reward_rate, part)>>
             ELSE IF call.op = "u128_delegation_amount"
             THEN <<ExactRate(call.unbonded_amount, one,
                              call.self.validator_exchange_rate)>>
             ELSE IF call.op = "u128_unbonded_amount"
             THEN <<ExactRate(call.delegation_amount,
                              call.self.validator_exchange_rate, one)>>
             ELSE <<ExactRate(call.total_delegation_tokens,
                              call.self.validator_exchange_rate,
                              call.base_rate_data.base_exchange_rate)>>
           defined ==
             /\ call.op = "u128_delegation_amount"
                   => call.self.validator_exchange_rate # <<>>
             /\ call.op = "u128_voting_power"
                   => call.base_rate_data.base_exchange_rate # <<>>
           fits == \A i \in 1..Len(exact) : FitsU64(exact[i])
           returned ==
             IF call.op = "u64_rate_data_next"
             THEN <<call.value.validator_reward_rate,
                    call.value.validator_exchange_rate>>
             ELSE IF call.op = "u64_base_rate_data_next"
             THEN <<call.value.base_exchange_rate>>
             ELSE <<call.value>>
       IN  (call.op \in {"u64_rate_data_next", "u64_base_rate_data_next",
                         "u64_slash", "u128_delegation_amount",
                         "u128_unbonded_amount", "u128_voting_power"}
               /\ defined)
              => IF fits THEN call.result = "ok" /\ returned = exact
                 ELSE call.result = "panic"]_vars

\* The checks of a spend proof against its public inputs, in the order the
\* errors are listed in.
SpendChecks(self, public) ==
    <<[error |-> "TransmissionKeyMismatch", holds |-> self.pk_d \in Elements],
      [error |-> "NoteCommitmentMismatch",
       holds |-> self.note_commitment
                    = NoteCommitmentNew(self.note_blinding, ValueOf(self), self.g_d,
                                        self.pk_d)],
      [error |-> "MerklePathMismatch", holds |-> Len(self.merkle_path_1) = DEPTH],
      [error |-> "MerkleRootMismatch",
       holds |-> RootFrom(self.note_commitment, self.merkle_path_1, self.position, 0)
                    = public.anchor],
      [error |-> "ValueCommitmentMismatch",
       holds |-> ValueCommit(ValueOf(self), self.v_blinding) = public.value_commitment],
      [error |-> "IdentityUnexpected",
       holds |-> ~ IsIdentity(self.g_d) /\ ~ IsIdentity(self.ak)],
      [error |-> "BadNullifier",
       holds |-> public.nullifier
                    = DeriveNullifier(self.nk, self.position, self.note_commitment)],
      [error |-> "InvalidSpendAuthRandomizer",
       holds |-> public.rk = Randomize(self.ak, self.spend_auth_randomizer)],
      [error |-> "InvalidDiversifiedAddress",
       holds |-> self.pk_d = DiversifiedPublic(IncomingViewingKey(self.ak, self.nk),
                                                self.g_d)]>>

\* C21: SpendProof::verify returns Ok exactly when every check holds, and
\* otherwise the error of the first check that fails, in the order
\* TransmissionKeyMismatch, NoteCommitmentMismatch, MerklePathMismatch,
\* MerkleRootMismatch, ValueCommitmentMismatch, IdentityUnexpected,
\* BadNullifier, InvalidSpendAuthRandomizer, InvalidDiversifiedAddress.
C21_FirstFailingCheck ==
    last.op = "spend_proof_verify"
       => LET checks == SpendChecks(last.self, last.public)
              failing == {i \in DOMAIN checks : ~ checks[i].holds}
          IN  last.result = IF failing = {} THEN "Ok"
                            ELSE checks[CHOOSE i \in failing :
                                           \A j \in failing : i <= j].error

\* A proof that verifies against the nullifier of its position was checked
\* against the nullifier derived at another position, with a randomized key
\* that does not match either: verify returned BadNullifier.
C21_Witness ==
    /\ last.op = "spend_proof_verify"
    /\ last.result = "BadNullifier"
    /\ \E p \in Positions \ {last.self.position} :
          last.public.nullifier
             = DeriveNullifier(last.self.nk, p, last.self.note_commitment)
    /\ last.public.rk # Randomize(last.self.ak, last.self.spend_auth_randomizer)
    /\ SpendProofVerify(last.self, last.public.anchor, last.public.value_commitment,
                        DeriveNullifier(last.self.nk, last.self.position,
                                        last.self.note_commitment),
                        Randomize(last.self.ak, last.self.spend_auth_randomizer))
          = "Ok"

\* C22: when a spend proof verifies against public inputs, no proof that
\* differs from it in exactly one witness field verifies against the same
\* public inputs.
C22_SingleFieldChangeRejected ==
    last.op = "spend_proof_verify"
       => \A field \in SpendProofFields :
             \A v \in FieldValues(last.self, field) :
                (/\ v # last.self[field]
                 /\ SpendProofVerify([last.self EXCEPT ![field] = v],
                                     last.public.anchor, last.public.value_commitment,
                                     last.public.nullifier, last.public.rk) = "Ok")
                   => last.result # "Ok"

\* C23: an output proof that would verify with some non-identity g_d, but
\* carries the group identity as g_d instead, is answered with
\* IdentityUnexpected when verified against the same public inputs.
C23_IdentityGeneratorReported ==
    (/\ last.op = "output_proof_verify"
     /\ IsIdentity(last.self.g_d)
     /\ \E g \in Elements :
           /\ ~ IsIdentity(g)
           /\ OutputProofVerify([last.self EXCEPT !.g_d = g],
                                last.public.value_commitment,
                                last.public.note_commitment,
                                last.public.epk) = "Ok")
       => last.result = "IdentityUnexpected"

\* C24: OutputProof::verify returns Ok exactly when the public note
\* commitment is the commitment recomputed from the witness (pk_d being a
\* canonical field element), the public value commitment is the negation of
\* value.commit(v_blinding), epk is esk.diversified_public(g_d) and g_d is
\* not the identity; any mismatch gives an error.
C24_OutputVerifyIffAllHold ==
    last.op = "output_proof_verify"
       => LET self == last.self
              transmission_key == FqFromBytes(self.pk_d)
          IN  (last.result = "Ok")
                 <=> /\ transmission_key.ok
                     /\ last.public.note_commitment
                           = NoteCommitmentNew(self.note_blinding, ValueOf(self),
                                               self.g_d, transmission_key.value)
                     /\ last.public.value_commitment
                           = Negated(ValueCommit(ValueOf(self), self.v_blinding))
                     /\ last.public.epk = DiversifiedPublic(self.esk, self.g_d)
                     /\ ~ IsIdentity(self.g_d)

\* A proof that verifies against the negated value commitment is rejected
\* when given the commitment itself.
C24_Witness ==
    /\ last.op = "output_proof_verify"
    /\ last.result = "ValueCommitmentMismatch"
    /\ last.public.value_commitment
          = ValueCommit(ValueOf(last.self), last.self.v_blinding)
    /\ OutputProofVerify(last.self,
                         Negated(last.public.value_commitment),
                         last.public.note_commitment, last.public.epk) = "Ok"

\* C25: parse_denom returns for every string: a string matching a base
\* pattern gives the denomination its family's constructor makes of the
\* captured data; a string matching only a display pattern gives None; any
\* other string gives the denomination whose base is the string itself, with
\* no display units.  The asset id is the hash of the base string, so that
\* equal strings give equal ids.
C25_ThreeWayClassification ==
    last.op = "parse_denom"
       => LET base == SetMatches(base_regexes, last.raw)
              display == SetMatches(display_set, last.raw)
          IN  /\ last.result = "ok"
              /\ base # {}
                    => \E i \in base :
                          last.value
                             = Constructors(i, Captures(base_regexes[i], last.raw).data)
              /\ (base = {} /\ display # {}) => last.value = None
              /\ (base = {} /\ display = {}) => last.value = InnerNew(last.raw, <<>>)
              /\ last.value # None => last.value.id = AssetId(last.value.base_denom)

\* A delegation token's base denomination is parsed to itself with its two
\* display units.
C25_Witness ==
    /\ last.op = "parse_denom"
    /\ last.result = "ok"
    /\ Captures(base_regexes[2], last.raw).matched
    /\ last.value # None
    /\ last.value.base_denom = last.raw
    /\ Len(last.value.units) = 2

\* C26: parse_unit returns for every string.  For a string matching a
\* display pattern the unit's denomination is parse_denom of the family's
\* base string (upenumbra, or udelegation_ and the captured data) and its
\* index is the position of the matched pattern in the family, the unit of
\* exponent 6 at index 0 and of exponent 3 at index 1; for any other string
\* it is the base unit of parse_denom of the string.
C26_ParseUnitConsistent ==
    last.op = "parse_unit"
       => LET display == SetMatches(display_set, last.raw)
          IN  /\ last.result = "ok"
              /\ display # {}
                    => \E base_index \in 1..Len(display_regexes) :
                          \E position \in 1..Len(display_regexes[base_index]) :
                             LET capture == Captures(display_regexes[base_index][position],
                                                     last.raw)
                                 family == base_regexes[base_index].literal \o capture.data
                             IN  /\ capture.matched
                                 /\ last.value.inner = ParseDenom(family).value
                                 /\ last.value.unit_index = position - 1
                                 /\ last.value.inner.units[position].exponent
                                       = (IF position = 1 THEN 6 ELSE 3)
              /\ display = {}
                    => last.value = BaseUnit(ParseDenom(last.raw).value)

\* The milli-unit of a delegation token is parsed to index 1 of the token's
\* denomination.
C26_Witness ==
    /\ last.op = "parse_unit"
    /\ last.result = "ok"
    /\ Captures(display_regexes[2][2], last.raw).matched
    /\ last.value.unit_index = 1
    /\ last.value.inner.units[2].exponent = 3

\* C27: at an exchange rate r > 0, delegation_amount(x) is floor(x*1e8/r)
\* and unbonded_amount(d) is floor(d*r/1e8) whenever they return, and
\* converting the result back returns no more than the amount converted:
\* unbonded_amount(delegation_amount(x)) <= x and
\* delegation_amount(unbonded_amount(d)) <= d.
C27_ConversionsNeverCreateValue ==
    LET r == last.self.validator_exchange_rate
        scale == BigOf(FP_SCALE)
        one == BigOf(1)
    IN  /\ (/\ last.op = "u128_delegation_amount"
            /\ last.result = "ok"
            /\ r # <<>>)
              => LET x == last.unbonded_amount
                     back == U128UnbondedAmount(last.self, last.value)
                 IN  /\ ~ BigLess(BigMul(x, scale), BigMul(last.value, r))
                     /\ BigLess(BigMul(x, scale), BigMul(BigAdd(last.value, one), r))
                     /\ ~ back.panic
                     /\ ~ BigLess(x, back.value)
        /\ (/\ last.op = "u128_unbonded_amount"
            /\ last.result = "ok"
            /\ r # <<>>)
              => LET d == last.delegation_amount
                     back == U128DelegationAmount(last.self, last.value)
                 IN  /\ ~ BigLess(BigMul(d, r), BigMul(last.value, scale))
                     /\ BigLess(BigMul(d, r), BigMul(BigAdd(last.value, one), scale))
                     /\ ~ back.panic
                     /\ ~ BigLess(d, back.value)

\* An amount that converts to a positive number of delegation tokens worth
\* strictly less than it.
C27_Witness ==
    /\ last.op = "u128_delegation_amount"
    /\ last.result = "ok"
    /\ last.self.validator_exchange_rate # <<>>
    /\ last.value # <<>>
    /\ BigLess(U128UnbondedAmount(last.self, last.value).value, last.unbonded_amount)

\* C28: every entry of validator_set is stored under the identity key that
\* its validator, its status and its rate data all carry.
C28_IdentityKeysAgree ==
    \A k \in DOMAIN validator_set :
       /\ validator_set[k].validator.identity_key = k
       /\ validator_set[k].status.identity_key = k
       /\ validator_set[k].rate_data.identity_key = k

\* end_block has replaced the configuration of an existing validator after
\* end_epoch computed the next rates.
C28_Witness ==
    /\ last.op = "end_block"
    /\ last.result = "ok"
    /\ next_base_rate # None
    /\ Len(updated_validators) > 0
    /\ \E i \in 1..Len(updated_validators) :
          LET ik == updated_validators[i].validator.identity_key
          IN  /\ ik \in DOMAIN validator_set
              /\ validator_set[ik].validator = updated_validators[i].validator

\* C29: RateData::next for an Active validator whose funding streams sum
\* to more than 10000 basis points panics and returns nothing; every rate
\* data it returns for an Active validator has a reward rate of at most the
\* base reward rate.
C29_ExcessCommissionAborts ==
    (/\ last.op = "rate_data_next"
     /\ last.state.name = "Active")
       => /\ CommissionBps(last.funding_streams) > 10000 => last.result = "panic"
          /\ last.result = "ok"
                => /\ last.value.validator_reward_rate >= 0
                   /\ last.value.validator_reward_rate
                         <= last.base_rate_data.base_reward_rate

\* The call panicked on streams of 11000 basis points.
C29_Witness ==
    /\ last.op = "rate_data_next"
    /\ last.state.name = "Active"
    /\ CommissionBps(last.funding_streams) > 10000
    /\ last.result = "panic"

RECURSIVE NetUnbonded(_, _, _)
\* The stake the net undelegations of the validators under keys release,
\* less the stake their net delegations bind, each valued at the rate of the
\* validator in vset: floor(|delta| * validator_exchange_rate / 1e8).
NetUnbonded(keys, vset, changes) ==
    IF keys = {} THEN 0
    ELSE LET k == CHOOSE x \in keys : TRUE
             delta == IF k \in DOMAIN changes THEN changes[k] ELSE 0
             unbonded == MulDiv(Abs(delta),
                                vset[k].rate_data.validator_exchange_rate, FP_SCALE)
         IN  (IF delta > 0 THEN -unbonded ELSE IF delta < 0 THEN unbonded ELSE 0)
             + NetUnbonded(keys \ {k}, vset, changes)

\* C30: after end_epoch returns Ok, supply_updates holds for the staking
\* token the supply the reader committed, less the unbonded amount of every
\* validator with a positive net delegation change, plus the unbonded amount
\* of every validator with a negative one, each amount being
\* unbonded_amount(|delta|) at the rate data the validator had before the
\* call; the supply recorded is never negative.
C30_StakingSupplyUpdate ==
    [][(/\ last'.op = "end_epoch"
        /\ last'.result = "ok")
          => /\ STAKING_TOKEN_ASSET_ID \in DOMAIN supply_updates'
             /\ supply_updates'[STAKING_TOKEN_ASSET_ID] >= 0
             /\ supply_updates'[STAKING_TOKEN_ASSET_ID]
                   = last'.staking_token_supply[1]
                     + NetUnbonded(DOMAIN validator_set, validator_set,
                                   MergedDelegationChanges(last'.committed_changes,
                                                           delegation_changes))]_vars

\* end_epoch returned Ok with a net delegation to one validator and a net
\* undelegation from another, and the staking supply changed.
C30_Witness ==
    /\ last.op = "end_epoch"
    /\ last.result = "ok"
    /\ LET changes == MergedDelegationChanges(last.committed_changes, delegation_changes)
       IN  /\ \E k \in DOMAIN changes : changes[k] > 0
           /\ \E k \in DOMAIN changes : changes[k] < 0
    /\ supply_updates[STAKING_TOKEN_ASSET_ID] # last.staking_token_supply[1]

\* C31: after an end_epoch that returns Ok, for every validator of
\* validator_set, whatever its state, the supply update recorded for its
\* delegation token is the committed supply plus its net delegation change,
\* and its voting power is floor(that supply * next exchange rate / next
\* base exchange rate), the next exchange rate being
\* floor(exchange rate * (reward rate + 1e8) / 1e8) for an Active validator
\* and the exchange rate itself otherwise; only a validator that the state
\* transitions of the same call unbond has the voting power 0 instead.
C31_SupplyAndVotingPower ==
    [][(/\ last'.op = "end_epoch"
        /\ last'.result = "ok")
          => \A k \in DOMAIN validator_set :
                LET changes == MergedDelegationChanges(last'.committed_changes,
                                                       delegation_changes)
                    delta == IF k \in DOMAIN changes THEN changes[k] ELSE 0
                    supply == CommittedSupply(k) + delta
                    rate == validator_set[k].rate_data
                    next_exchange_rate ==
                        IF validator_set[k].status.state = Active
                        THEN MulDiv(rate.validator_exchange_rate,
                                    rate.validator_reward_rate + FP_SCALE, FP_SCALE)
                        ELSE rate.validator_exchange_rate
                    power == MulDiv(supply, next_exchange_rate,
                                    next_base_rate'.base_exchange_rate)
                IN  /\ supply_updates'[DelegationTokenId(k)] = supply
                    /\ \/ validator_set'[k].status.voting_power = power
                       \/ /\ validator_set[k].status.state = Active
                          /\ validator_set'[k].status.state.name = "Unbonding"
                          /\ validator_set'[k].status.voting_power = 0]_vars

\* end_epoch returned Ok for a validator with a net delegation change whose
\* voting power is positive and differs from its delegation token supply.
C31_Witness ==
    /\ last.op = "end_epoch"
    /\ last.result = "ok"
    /\ \E k \in DOMAIN validator_set :
          /\ k \in DOMAIN delegation_changes
          /\ delegation_changes[k] # 0
          /\ validator_set[k].status.voting_power > 0
          /\ validator_set[k].status.voting_power
                # supply_updates[DelegationTokenId(k)]

RECURSIVE ExpectedRewardNotes(_, _, _, _, _)
\* One note per funding stream of each validator of vset under keys (in
\* ascending order) that is Active, stream by stream, of the amount
\* reward_amount(committed supply + net delta, next base rate, current base
\* rate).
ExpectedRewardNotes(keys, vset, r, changes, next_base) ==
    IF keys = <<>> THEN <<>>
    ELSE LET k == Head(keys)
             delta == IF k \in DOMAIN changes THEN changes[k] ELSE 0
             supply == r.delegation_supply[k] + delta
             streams == r.funding_streams[k]
             notes == [i \in 1..Len(streams) |->
                          [amount |-> RewardAmount(streams[i], supply, next_base,
                                                   r.base_rate),
                           address |-> streams[i].address]]
         IN  (IF vset[k].status.state = Active THEN notes ELSE <<>>)
             \o ExpectedRewardNotes(Tail(keys), vset, r, changes, next_base)

RECURSIVE SumAmounts(_)
SumAmounts(notes) ==
    IF notes = <<>> THEN 0 ELSE Head(notes).amount + SumAmounts(Tail(notes))

\* C32: after an end_epoch that returns Ok, reward_notes holds exactly one
\* note per funding stream of each validator that was Active before the
\* call, by identity key and then by stream, of the amount
\* stream.reward_amount(updated delegation supply, next base rate, current
\* base rate), and none for a validator in another state; the amounts sum to
\* the sum of those reward amounts.
C32_RewardNotes ==
    [][(/\ last'.op = "end_epoch"
        /\ last'.result = "ok")
       => \A r \in SupplyReaderAnswers(epoch.index + 1) :
          (/\ r.staking_token_supply = last'.staking_token_supply
           /\ r.delegation_changes = last'.committed_changes
           /\ EndEpoch(r))
             => LET expected ==
                        ExpectedRewardNotes(
                            SortedKeys(DOMAIN validator_set), validator_set, r,
                            MergedDelegationChanges(r.delegation_changes,
                                                    delegation_changes),
                            next_base_rate')
                IN  /\ reward_notes' = expected
                    /\ SumAmounts(reward_notes') = SumAmounts(expected)]_vars

\* end_epoch returned Ok with notes of positive amounts for two addresses.
C32_Witness ==
    /\ last.op = "end_epoch"
    /\ last.result = "ok"
    /\ Len(reward_notes) >= 3
    /\ \E i, j \in 1..Len(reward_notes) :
          /\ reward_notes[i].amount > 0
          /\ reward_notes[j].amount > reward_notes[i].amount
          /\ reward_notes[i].address # reward_notes[j].address

\* The change recorded for k in a map of delegation changes, 0 if none.
ChangeOf(changes, k) == IF k \in DOMAIN changes THEN changes[k] ELSE 0

\* C33: update_delegations adds each delta passed to the tally of its
\* validator, commit_block empties the tally and no other call changes it;
\* end_epoch applies to validator k the change the store holds for k plus
\* the tally of k.  The net delta is therefore the store's change plus the
\* sum of the deltas passed since the last commit_block, in whatever order
\* and grouping they were passed.
C33_NetDelegationDelta ==
    [][/\ last'.op = "update_delegations"
             => \A k \in IdentityKeys :
                   ChangeOf(delegation_changes', k)
                      = ChangeOf(delegation_changes, k) + ChangeOf(last'.changes, k)
       /\ last'.op = "commit_block" => delegation_changes' = EmptyMap
       /\ last'.op \notin {"update_delegations", "commit_block"}
             => delegation_changes' = delegation_changes
       /\ (last'.op = "end_epoch" /\ last'.result = "ok")
             => \A k \in DOMAIN validator_set :
                   supply_updates'[DelegationTokenId(k)] - CommittedSupply(k)
                      = ChangeOf(last'.committed_changes, k)
                        + ChangeOf(delegation_changes, k)]_vars

\* end_epoch applied to a validator a change of the store together with a
\* change tallied in the block.
C33_Witness ==
    /\ last.op = "end_epoch"
    /\ last.result = "ok"
    /\ \E k \in DOMAIN validator_set :
          /\ ChangeOf(last.committed_changes, k) # 0
          /\ ChangeOf(delegation_changes, k) # 0
          /\ supply_updates[DelegationTokenId(k)]
                = CommittedSupply(k) + ChangeOf(last.committed_changes, k)
                  + ChangeOf(delegation_changes, k)


\* The validators process_epoch_transitions keeps in the active set: the
\* top_validators it computes from validator_set.
TopOf(vset, active_validator_limit) ==
    TopValidators(ValidatorsInfoByPower(vset), active_validator_limit)

\* C34: when process_epoch_transitions returns Ok, every validator that was
\* Active and not among top_validators is Unbonding with unbonding_epoch =
\* current_epoch.index + unbonding_epochs and voting power 0; every validator
\* that was Unbonding{e} and not among top_validators is still Unbonding{e}
\* when current_epoch.index < e and is Inactive when current_epoch.index >= e.
C34_DisplacedUnbondsThenDeactivates ==
    [][(last'.op = "process_epoch_transitions" /\ last'.result = "ok")
        => \A k \in DOMAIN validator_set
                     \ TopOf(validator_set, last'.active_validator_limit) :
              /\ StateOf(validator_set, k) = Active
                    => /\ StateOf(validator_set', k) =
                             Unbonding(last'.current_epoch.index
                                          + last'.unbonding_epochs)
                       /\ PowerOf(validator_set', k) = 0
              /\ StateOf(validator_set, k).name = "Unbonding"
                    => StateOf(validator_set', k) =
                          IF last'.current_epoch.index
                                < StateOf(validator_set, k).unbonding_epoch
                          THEN StateOf(validator_set, k)
                          ELSE Inactive]_vars


RECURSIVE MerkleFold(_, _, _, _)
\* The node at altitude n above the leaf: the node below it combined with
\* the sibling path[n], which is the left child when bit n - 1 of position
\* is 1 and the right child when it is 0.
MerkleFold(note_commitment, path, position, n) ==
    IF n = 0 THEN note_commitment
    ELSE LET below == MerkleFold(note_commitment, path, position, n - 1)
             sibling == path[n]
         IN  IF (position \div (2 ^ (n - 1))) % 2 = 1
             THEN [lvl |-> n - 1, left |-> sibling, right |-> below]
             ELSE [lvl |-> n - 1, left |-> below, right |-> sibling]

\* C35: when the checks SpendProof::verify makes before the Merkle path
\* pass, it returns MerklePathMismatch exactly when the authentication path
\* has not DEPTH entries, and for a path of DEPTH entries it returns
\* MerkleRootMismatch exactly when the anchor differs from the fold of the
\* path from note_commitment in which, at altitude lvl, the accumulator is
\* the right child if bit lvl of position is 1 and the left child otherwise.
C35_MerkleRootFold ==
    (/\ last.op = "spend_proof_verify"
     /\ last.self.pk_d \in Elements
     /\ last.self.note_commitment
           = NoteCommitmentNew(last.self.note_blinding, ValueOf(last.self),
                               last.self.g_d, last.self.pk_d))
       => /\ (last.result = "MerklePathMismatch")
                <=> Len(last.self.merkle_path_1) # DEPTH
          /\ Len(last.self.merkle_path_1) = DEPTH
                => ((last.result = "MerkleRootMismatch")
                       <=> MerkleFold(last.self.note_commitment,
                                      last.self.merkle_path_1,
                                      last.self.position, DEPTH)
                              # last.public.anchor)

\* verify returned MerkleRootMismatch for an anchor that is the root of the
\* same leaf and the same siblings at another position: only the sides of
\* the children differ.
C35_Witness ==
    /\ last.op = "spend_proof_verify"
    /\ last.result = "MerkleRootMismatch"
    /\ Len(last.self.merkle_path_1) = DEPTH
    /\ \E p \in Positions \ {last.self.position} :
          last.public.anchor
             = MerkleFold(last.self.note_commitment, last.self.merkle_path_1, p, DEPTH)


\* C36: BaseRateData::next returns the base exchange rate
\* floor(base_exchange_rate * (next_base_reward_rate + 1e8) / 1e8) whenever
\* that value is a u64, and the rate it returns is not below the rate it was
\* called on.
C36_BaseRateNeverDecreases ==
    last.op = "u64_base_rate_data_next"
       => LET exact == ExactRate(last.self.base_exchange_rate,
                                 BigAdd(last.base_reward_rate, BigOf(FP_SCALE)),
                                 BigOf(FP_SCALE))
          IN  FitsU64(exact)
                 => /\ last.result = "ok"
                    /\ last.value.base_exchange_rate = exact
                    /\ ~ BigLess(last.value.base_exchange_rate,
                                 last.self.base_exchange_rate)


\* No two validators of vset carry the same consensus key.
DistinctConsensusKeys(vset) ==
    \A j, k \in DOMAIN vset :
       j # k => vset[j].validator.consensus_key # vset[k].validator.consensus_key

\* C37: process_epoch_transitions returns Ok on every validator_set whose
\* validators carry pairwise distinct consensus keys, whatever their states,
\* their voting powers and the active_validator_limit are.
C37_EpochTransitionsTotal ==
    [][(last'.op = "process_epoch_transitions"
           /\ DistinctConsensusKeys(validator_set))
        => last'.result = "ok"]_vars


\* C38: when end_epoch returns Ok, every entry of the next_rates it leaves
\* has the epoch_index of the next_base_rate it leaves.
C38_RatesDescribeOneEpoch ==
    [][(last'.op = "end_epoch" /\ last'.result = "ok")
        => \A i \in 1..Len(next_rates') :
              next_rates'[i].epoch_index = next_base_rate'.epoch_index]_vars


\* The state the transitions process_epoch_transitions makes for the
\* validator k of vset leave k in, when they are applied to k itself.
StateAfterOwnTransitions(vset, k, call) ==
    LET state == StateOf(vset, k)
        top == TopOf(vset, call.active_validator_limit)
        current_epoch == call.current_epoch
        first == IF state.name \in {"Inactive", "Unbonding"} /\ k \in top
                 THEN Active
                 ELSE IF state = Active /\ k \notin top
                      THEN Unbonding(current_epoch.index + call.unbonding_epochs)
                      ELSE state
    IN  IF state.name = "Unbonding" /\ state.unbonding_epoch <= current_epoch.index
        THEN Inactive
        ELSE first

\* C39: when process_epoch_transitions returns Ok, every validator is in
\* the state that the transitions made for its own status lead to and no
\* validator is in a state that a transition made for another one put it
\* in, also when validators added by end_block share a consensus key.
C39_TransitionsLandOnExamined ==
    [][(last'.op = "process_epoch_transitions" /\ last'.result = "ok")
        => \A k \in DOMAIN validator_set :
              StateOf(validator_set', k)
                 = StateAfterOwnTransitions(validator_set, k, last')]_vars


\* C40: when end_epoch returns an error, validator_set, next_rates,
\* next_base_rate, reward_notes and supply_updates are as they were before
\* the call.
C40_EndEpochAllOrNothing ==
    [][(last'.op = "end_epoch" /\ last'.result = "err")
        => UNCHANGED <<validator_set, next_rates, next_base_rate, reward_notes,
                       supply_updates>>]_vars

====
